---- MODULE Spec2Model ----
(***************************************************************************)
(* Job supervision core of the ghost daemon (cmd/ghost).                   *)
(*                                                                         *)
(* Two state machines are modelled from server_job.go:                     *)
(*   - watchJob  (variables w_..): run loop, run-on-start task, one exit   *)
(*     handler (waitForExit) per launched process, forced-kill timers and  *)
(*     concurrent Close callers;                                           *)
(*   - serverJob (variables s_..): the supervising run loop (launchOnce /  *)
(*     waitForRestart), output copy tasks, the forced-kill timer and       *)
(*     concurrent Close callers.                                           *)
(*                                                                         *)
(* A section of code executed between j.mu.Lock() and j.mu.Unlock() is one *)
(* action: the mutex makes such sections atomic with respect to each       *)
(* other, and every step a task takes outside the mutex is an action of    *)
(* its own, so every interleaving the mutex admits is a behaviour.         *)
(* Durations (debounce, kill timeout, restart delay) are abstracted to     *)
(* "the timer may elapse at any moment after it was armed".                *)
(***************************************************************************)
EXTENDS Integers, Sequences, FiniteSets, TLC

\* ------------------------------------------------------------------ bounds
MaxLaunch == 2      \* launch attempts of one watch job
MaxEvents == 2      \* filesystem notifications delivered to one watch job
NumClosers == 2     \* concurrent callers of Close on one job
MaxSpawn == 2       \* launch attempts of one server job
MaxCalls == 3       \* calls of Apply and StopAll on one manager
MaxSpecs == 2       \* job specs handed to one Apply call

\* kill timers a watch job can create: one per restart request, one by Close
MaxTimers == MaxLaunch + 1

Pids == 1..MaxLaunch
Timers == 1..MaxTimers
Closers == 1..NumClosers
SPids == 1..MaxSpawn
Calls == 1..MaxCalls
SpecIdx == 1..MaxSpecs

\* the job a call of Apply constructs from its i-th spec
JobIds == Calls \X SpecIdx

\* ---------------------------------------------------------------- triggers
\* Trigger{Event, Path}; a path is a sequence of one-character strings.
Trigger(e, p) == [Event |-> e, Path |-> p]

NoPath == <<>>

\* the job's configuration that the admission path reads
CfgMatchers == << <<"*", ".", "t">>, <<"*", "*", "/", "*", ".", "t">> >>
CfgEvents == {"change", "add"}

RECURSIVE globMatch(_, _)
\* matcher.matches with the regexp globToRegexp builds: "**" -> .*,
\* "*" -> [^/]*, "?" -> [^/], anything else literal, anchored at both ends
globMatch(pat, s) ==
  IF pat = <<>> THEN s = <<>>
  ELSE IF Head(pat) = "*"
    THEN IF Len(pat) >= 2 /\ pat[2] = "*"
           THEN \E k \in 0..Len(s) :
                  globMatch(SubSeq(pat, 3, Len(pat)), SubSeq(s, k + 1, Len(s)))
           ELSE \E k \in 0..Len(s) :
                  /\ \A i \in 1..k : s[i] # "/"
                  /\ globMatch(Tail(pat), SubSeq(s, k + 1, Len(s)))
  ELSE IF Head(pat) = "?"
    THEN s # <<>> /\ Head(s) # "/" /\ globMatch(Tail(pat), Tail(s))
  ELSE s # <<>> /\ Head(s) = Head(pat) /\ globMatch(Tail(pat), Tail(s))

matches(rel) ==
  IF Len(CfgMatchers) = 0 THEN TRUE
  ELSE \E i \in 1..Len(CfgMatchers) : globMatch(CfgMatchers[i], rel)

allowsEvent(event) == event \in CfgEvents

\* raw notify event bits -> event kinds, in the order the code appends them
mapNotifyEvents(event) ==
  (IF "Create" \in event THEN <<"add", "addDir">> ELSE <<>>)
  \o (IF "Write" \in event THEN <<"change">> ELSE <<>>)
  \o (IF "Remove" \in event THEN <<"unlink", "unlinkDir">> ELSE <<>>)
  \o (IF "Rename" \in event THEN <<"rename", "renameDir">> ELSE <<>>)

RECURSIVE allowedTriggers(_, _)
allowedTriggers(events, rel) ==
  IF events = <<>> THEN <<>>
  ELSE (IF allowsEvent(Head(events)) THEN <<Trigger(Head(events), rel)>> ELSE <<>>)
       \o allowedTriggers(Tail(events), rel)

hasDotDotPrefix(rel) == Len(rel) >= 2 /\ rel[1] = "." /\ rel[2] = "."

triggersForEvent_noRootCheck(info) ==
  LET events == mapNotifyEvents(info.Event) IN
  IF Len(events) = 0 THEN <<>>
  ELSE IF ~matches(info.Rel) THEN <<>>
  ELSE allowedTriggers(events, info.Rel)

\* info = [Event |-> set of raw bits, Rel |-> filepath.Rel(WatchRoot, Path)]
triggersForEvent(info) ==
  LET events == mapNotifyEvents(info.Event) IN
  IF Len(events) = 0 THEN <<>>
  ELSE IF hasDotDotPrefix(info.Rel) THEN <<>>
  ELSE IF ~matches(info.Rel) THEN <<>>
  ELSE allowedTriggers(events, info.Rel)

dedupeTriggers_keepAll(triggers) == triggers

\* the characters of an event name
eventChars(e) ==
  CASE e = "add" -> <<"a", "d", "d">>
    [] e = "addDir" -> <<"a", "d", "d", "D", "i", "r">>
    [] e = "change" -> <<"c", "h", "a", "n", "g", "e">>
    [] e = "unlink" -> <<"u", "n", "l", "i", "n", "k">>
    [] e = "unlinkDir" -> <<"u", "n", "l", "i", "n", "k", "D", "i", "r">>
    [] e = "rename" -> <<"r", "e", "n", "a", "m", "e">>
    [] e = "renameDir" -> <<"r", "e", "n", "a", "m", "e", "D", "i", "r">>
    [] e = "startup" -> <<"s", "t", "a", "r", "t", "u", "p">>
    [] e = "restart" -> <<"r", "e", "s", "t", "a", "r", "t">>
    [] e = "manual" -> <<"m", "a", "n", "u", "a", "l">>

\* dedupeTriggers: key := trigger.Event + "|" + trigger.Path
triggerKey(trigger) == eventChars(trigger.Event) \o <<"|">> \o trigger.Path

RECURSIVE dedupeByEvent(_, _)
dedupeByEvent(triggers, seen) ==
  IF triggers = <<>> THEN <<>>
  ELSE IF Head(triggers).Event \in seen THEN dedupeByEvent(Tail(triggers), seen)
  ELSE <<Head(triggers)>> \o dedupeByEvent(Tail(triggers), seen \cup {Head(triggers).Event})

dedupeTriggers_byEvent(triggers) ==
  IF Len(triggers) <= 1 THEN triggers ELSE dedupeByEvent(triggers, {})

\* dedupeTriggers, the loop: seen is the set of keys met so far
RECURSIVE dedupeFrom(_, _)
dedupeFrom(triggers, seen) ==
  IF triggers = <<>> THEN <<>>
  ELSE IF triggerKey(Head(triggers)) \in seen THEN dedupeFrom(Tail(triggers), seen)
  ELSE <<Head(triggers)>>
       \o dedupeFrom(Tail(triggers), seen \cup {triggerKey(Head(triggers))})

dedupeTriggers(triggers) ==
  IF Len(triggers) <= 1 THEN triggers ELSE dedupeFrom(triggers, {})

\* the value of run()'s info while no notification is being handled
NoInfo == [Event |-> {}, Rel |-> <<>>]

\* the notifications the event source delivers in this model
Notifications ==
  { [Event |-> {"Write"}, Rel |-> <<"a", ".", "t">>],
    [Event |-> {"Create"}, Rel |-> <<"b", ".", "t">>],
    [Event |-> {"Write"}, Rel |-> <<"a", ".", "j">>],
    [Event |-> {"Remove"}, Rel |-> <<"a", ".", "t">>],
    [Event |-> {"Write"}, Rel |-> <<".", ".", "/", "a", ".", "t">>] }

\* ... and further ones for the admission path: two raw bits at once, a
\* file of the watch root whose name begins with two dots, and a name with
\* the separator of dedupeTriggers' key in it
PathNotifications ==
  Notifications \cup
  { [Event |-> {"Create", "Write"}, Rel |-> <<"a", ".", "t">>],
    [Event |-> {"Write"}, Rel |-> <<".", ".", "t">>],
    [Event |-> {"Create"}, Rel |-> <<"|", ".", "t">>] }

\* =================================================================== state
\* the job mutex (j.mu) and the position of every task of one job in its
\* sequence of lock, unlock and blocking operations
VARIABLES
  mu_kind,    \* "watch" for a watchJob, "server" for a serverJob
  mu_holder,  \* the task that holds j.mu, NoTask when it is unlocked
  mu_pc,      \* task t: index of its next operation, 0 while it is not started
  mu_sig      \* the channels closed and the wait groups released so far

muvars == <<mu_kind, mu_holder, mu_pc, mu_sig>>

\* the state of the daemon (GhostDaemon) and of the configuration file
VARIABLES
  d_file,     \* the configuration file: what readConfig would return now
  d_main,     \* main(): "new", "start", "wait" (for a signal), "exit" (Start failed),
              \*         "stop", "stopall", "stopped", "absent"
  d_watcher,  \* runConfigWatcher: "none", "select", "timer" (debounce armed), "fired"
              \*                   (elapsed, not yet received), "reload", "done"
  d_rpc,      \* reloadConfig: "idle", "read", "tracker", "apply"
  d_cfg,      \* reloadConfig: cfg
  d_loaded,   \* the configuration of the last reloadConfig that returned nil
  d_call,     \* the number of the next call on d.manager
  d_event,    \* an event for the configuration file waits in d.watcher.Events
  d_err       \* what the last reloadConfig returned: "none" (none yet), "nil", "err"

dvars == <<d_file, d_main, d_watcher, d_rpc, d_cfg, d_loaded, d_call, d_event, d_err>>

\* the state of a manager (WatchManager or ServerManager) and of its callers
VARIABLES
  m_kind,    \* "watch" for a WatchManager, "server" for a ServerManager
  m_serial,  \* the callers make one call at a time
  m_jobs,    \* m.jobs
  m_job,     \* job j: "none", "failed" (constructor error), "running", "closing", "closed"
  m_op,      \* call k: "none", "Apply", "StopAll"
  m_pc,      \* call k: "idle", "close", "closewait", "build", "returned"
  m_old,     \* call k: oldJobs (Apply) or jobs (StopAll), the result of swapJobs(nil)
  m_new,     \* call k: newJobs
  m_n,       \* call k: the number of specs given to Apply
  m_i        \* call k: position of the loop it is in

mlocals == <<m_old, m_new, m_n, m_i>>
mvars == <<m_kind, m_serial, m_jobs, m_job, m_op, m_pc, mlocals>>

\* the state of a serverJob
VARIABLES
  s_ctor,       \* newServerJob: "call" (not returned yet), "job"
  s_err,        \* run(): err, what launchOnce returned: "nil", "log", "start", "exit"
  s_restart,    \* cfg.Restart
  s_usePTY,     \* cfg.UsePTY
  s_closed,     \* j.closed
  s_cmd,        \* j.cmd: the process it points to, 0 for nil
  s_pty,        \* j.pty: the process whose pty master it is, 0 for nil
  s_killTimer,  \* j.killTimer: TRUE when non-nil
  s_stopCh,     \* TRUE once j.stopCh is closed
  s_stops,      \* times Close ran close(j.stopCh) and j.stopProcessLocked()
  s_doneCh,     \* TRUE once j.doneCh is closed
  s_rpc,        \* run(): position of the run loop
  s_pstate,     \* process p: "none", "running", "exited", "reaped", "failed"
  s_ptyOpen,    \* the pty master of p is open
  s_copies,     \* output copy tasks of p still running
  s_term,       \* SIGTERMs sent to p
  s_kills,      \* SIGKILLs sent to p
  s_nspawn,     \* spawn attempts so far
  s_tstate,     \* the kill timer: "none", "armed", "stopped", "firing", "done"
  s_tproc,      \* the process the kill timer captured at arm time
  s_cpc         \* Close caller c: "idle", "wait" (on doneCh), "returned"

scfg == <<s_restart, s_usePTY>>
shandles == <<s_cmd, s_pty>>
schans == <<s_stopCh, s_stops, s_doneCh>>
sprocs == <<s_pstate, s_nspawn>>
ssignals == <<s_term, s_kills>>
stimer == <<s_killTimer, s_tstate, s_tproc>>
svars == <<s_ctor, s_err, scfg, s_closed, shandles, schans, s_rpc, sprocs, s_ptyOpen, s_copies,
           ssignals, stimer, s_cpc>>

\* the state of a watchJob
VARIABLES
  w_ctor,           \* newWatchJob: "call" (not returned yet), "job", "error"
  w_restart,        \* cfg.Restart
  w_runOnStart,     \* cfg.RunOnStart
  w_closed,         \* j.closed
  w_running,        \* j.running
  w_restartQueued,  \* j.restartQueued
  w_cmd,            \* j.cmd: the process it points to, 0 for nil
  w_killTimer,      \* j.killTimer: the timer it points to, 0 for nil
  w_pending,        \* j.pending (run-queue)
  w_pendingRestart, \* j.pendingRestart (restart-queue)
  w_stopCh,         \* TRUE once j.stopCh is closed
  w_stops,          \* times Close ran close(j.stopCh) and j.stopProcessLocked()
  w_doneCh,         \* TRUE once j.doneCh is closed
  w_subscribed,     \* TRUE from notify.Watch until notify.Stop
  w_evClosed,       \* TRUE once j.events is closed by the event source
  w_rpc,            \* run(): "select", "event", "sched" (inside handleTriggers), "done"
  w_info,           \* run(): the notification received from j.events, being handled
  w_window,         \* admitted notifications buffered since the last scheduleTriggers call
  w_rpending,       \* run(): local pending buffer
  w_dtimer,         \* run(): debounce timer "nil", "armed", "fired"
  w_nevents,        \* notifications received so far
  w_startpc,        \* run-on-start task: "none", "ready", "done"
  w_hpc,            \* waitForExit(p): "wait" (in cmd.Wait), "resched", "done"
  w_htrig,          \* waitForExit(p): local triggers to reschedule
  w_pstate,         \* process p: "none", "running", "exited", "reaped", "failed"
  w_trig,           \* triggers in the environment of the process held in w_cmd
  w_term,           \* SIGTERMs sent to p, by sender: [sched, close]
  w_kills,          \* SIGKILLs sent to p
  w_nlaunch,        \* launchLocked calls so far
  w_queued,         \* triggers handed to scheduleTriggers while the latest process ran
  w_tstate,         \* kill timer t: "none", "armed", "stopped", "firing", "done"
  w_tproc,          \* kill timer t: the process captured at arm time
  w_ntimers,        \* kill timers created so far
  w_cpc,            \* Close caller c: "idle", "wait" (on doneCh), "returned"
  w_atClose         \* processes spawned and not reaped when closed was set

wcfg == <<w_restart, w_runOnStart>>
wqueues == <<w_restartQueued, w_pending, w_pendingRestart>>
wchans == <<w_stopCh, w_stops, w_doneCh, w_subscribed, w_evClosed>>
wloop == <<w_rpc, w_info, w_window, w_rpending, w_dtimer, w_nevents>>
wprocs == <<w_pstate, w_trig, w_nlaunch>>
wtimers == <<w_tstate, w_tproc, w_ntimers>>
wvars == <<w_ctor, wcfg, w_closed, w_running, w_cmd, w_killTimer, wqueues, wchans, wloop,
           w_startpc, w_hpc, w_htrig, wprocs, w_term, w_kills, w_queued,
           wtimers, w_cpc, w_atClose>>

vars == <<wvars, svars, mvars, muvars, dvars>>

\* ================================================================ watchJob
\* processes spawned and not yet reaped by cmd.Wait
wLive == {p \in Pids : w_pstate[p] \in {"running", "exited"}}

watchJob_Init ==
  /\ w_evClosed = FALSE
  /\ w_ctor = "job"
  /\ w_restart \in BOOLEAN
  /\ w_runOnStart \in BOOLEAN
  /\ w_closed = FALSE
  /\ w_running = FALSE
  /\ w_restartQueued = FALSE
  /\ w_cmd = 0
  /\ w_killTimer = 0
  /\ w_pending = <<>>
  /\ w_pendingRestart = <<>>
  /\ w_stopCh = FALSE
  /\ w_stops = 0
  /\ w_doneCh = FALSE
  /\ w_subscribed = TRUE
  /\ w_rpc = "select"
  /\ w_info = NoInfo
  /\ w_window = <<>>
  /\ w_rpending = <<>>
  /\ w_dtimer = "nil"
  /\ w_nevents = 0
  /\ w_startpc = IF w_runOnStart THEN "ready" ELSE "none"
  /\ w_hpc = [p \in Pids |-> "wait"]
  /\ w_htrig = [p \in Pids |-> <<>>]
  /\ w_pstate = [p \in Pids |-> "none"]
  /\ w_trig = <<>>
  /\ w_term = [p \in Pids |-> [sched |-> 0, close |-> 0]]
  /\ w_kills = [p \in Pids |-> 0]
  /\ w_nlaunch = 0
  /\ w_queued = <<>>
  /\ w_tstate = [t \in Timers |-> "none"]
  /\ w_tproc = [t \in Timers |-> 0]
  /\ w_ntimers = 0
  /\ w_cpc = [c \in Closers |-> "idle"]
  /\ w_atClose = {}

\* the values the watch variables hold in a specification without a watch job
watchJob_Absent ==
  /\ w_evClosed = FALSE
  /\ w_ctor = "none"
  /\ w_restart = FALSE
  /\ w_runOnStart = FALSE
  /\ w_closed = FALSE
  /\ w_running = FALSE
  /\ w_restartQueued = FALSE
  /\ w_cmd = 0
  /\ w_killTimer = 0
  /\ w_pending = <<>>
  /\ w_pendingRestart = <<>>
  /\ w_stopCh = FALSE
  /\ w_stops = 0
  /\ w_doneCh = FALSE
  /\ w_subscribed = FALSE
  /\ w_rpc = "absent"
  /\ w_info = NoInfo
  /\ w_window = <<>>
  /\ w_rpending = <<>>
  /\ w_dtimer = "nil"
  /\ w_nevents = 0
  /\ w_startpc = "none"
  /\ w_hpc = [p \in Pids |-> "wait"]
  /\ w_htrig = [p \in Pids |-> <<>>]
  /\ w_pstate = [p \in Pids |-> "none"]
  /\ w_trig = <<>>
  /\ w_term = [p \in Pids |-> [sched |-> 0, close |-> 0]]
  /\ w_kills = [p \in Pids |-> 0]
  /\ w_nlaunch = 0
  /\ w_queued = <<>>
  /\ w_tstate = [t \in Timers |-> "none"]
  /\ w_tproc = [t \in Timers |-> 0]
  /\ w_ntimers = 0
  /\ w_cpc = [c \in Closers |-> "absent"]
  /\ w_atClose = {}

\* newWatchJob has been called with a spec and has not subscribed yet:
\* there is no job, no task and no subscription
watchJob_New ==
  /\ w_evClosed = FALSE
  /\ w_ctor = "call"
  /\ w_restart \in BOOLEAN
  /\ w_runOnStart \in BOOLEAN
  /\ w_closed = FALSE
  /\ w_running = FALSE
  /\ w_restartQueued = FALSE
  /\ w_cmd = 0
  /\ w_killTimer = 0
  /\ w_pending = <<>>
  /\ w_pendingRestart = <<>>
  /\ w_stopCh = FALSE
  /\ w_stops = 0
  /\ w_doneCh = FALSE
  /\ w_subscribed = FALSE
  /\ w_rpc = "none"
  /\ w_info = NoInfo
  /\ w_window = <<>>
  /\ w_rpending = <<>>
  /\ w_dtimer = "nil"
  /\ w_nevents = 0
  /\ w_startpc = "none"
  /\ w_hpc = [p \in Pids |-> "wait"]
  /\ w_htrig = [p \in Pids |-> <<>>]
  /\ w_pstate = [p \in Pids |-> "none"]
  /\ w_trig = <<>>
  /\ w_term = [p \in Pids |-> [sched |-> 0, close |-> 0]]
  /\ w_kills = [p \in Pids |-> 0]
  /\ w_nlaunch = 0
  /\ w_queued = <<>>
  /\ w_tstate = [t \in Timers |-> "none"]
  /\ w_tproc = [t \in Timers |-> 0]
  /\ w_ntimers = 0
  /\ w_cpc = [c \in Closers |-> "absent"]
  /\ w_atClose = {}

newWatchJob_ignoreError(ok) ==
  /\ w_ctor = "call"
  /\ w_ctor' = IF ok THEN "job" ELSE "error"
  /\ w_subscribed' = ok
  /\ w_rpc' = "select"
  /\ w_startpc' = IF w_runOnStart THEN "ready" ELSE "none"
  /\ w_cpc' = [c \in Closers |-> IF ok THEN "idle" ELSE "absent"]
  /\ UNCHANGED <<dvars, muvars, mvars, svars, w_evClosed, wcfg, w_closed, w_running, w_cmd, w_killTimer, wqueues,
                 w_stopCh, w_stops, w_doneCh, w_info, w_window, w_rpending, w_dtimer,
                 w_nevents, w_hpc, w_htrig, wprocs, w_term, w_kills, w_queued, wtimers,
                 w_atClose>>

\* newWatchJob: ok is the outcome of notify.Watch. On an error it returns
\* (nil, error) at once; otherwise it builds the job, starts go job.run()
\* and, with RunOnStart, go job.scheduleTriggers(startup), and returns the
\* job, which its holder may Close from then on.
newWatchJob(ok) ==
  /\ w_ctor = "call"
  /\ IF ok
       THEN /\ w_ctor' = "job"
            /\ w_subscribed' = TRUE
            /\ w_rpc' = "select"
            /\ w_startpc' = IF w_runOnStart THEN "ready" ELSE "none"
            /\ w_cpc' = [c \in Closers |-> "idle"]
       ELSE /\ w_ctor' = "error"
            /\ UNCHANGED <<w_subscribed, w_rpc, w_startpc, w_cpc>>
  /\ UNCHANGED <<dvars, muvars, mvars, svars, w_evClosed, wcfg, w_closed, w_running, w_cmd, w_killTimer, wqueues,
                 w_stopCh, w_stops, w_doneCh, w_info, w_window, w_rpending, w_dtimer,
                 w_nevents, w_hpc, w_htrig, wprocs, w_term, w_kills, w_queued, wtimers,
                 w_atClose>>

\* watchJob.stopProcessLocked: SIGTERM to j.cmd.Process and a fresh kill
\* timer stored in j.killTimer (the previous timer, if any, is not stopped)
watchJob_stopProcessLocked(by) ==
  IF w_cmd = 0
    THEN UNCHANGED <<w_term, w_killTimer, wtimers>>
    ELSE /\ w_term' = [w_term EXCEPT ![w_cmd][by] = @ + 1]
         /\ w_ntimers' = w_ntimers + 1
         /\ w_tstate' = [w_tstate EXCEPT ![w_ntimers + 1] = "armed"]
         /\ w_tproc' = [w_tproc EXCEPT ![w_ntimers + 1] = w_cmd]
         /\ w_killTimer' = w_ntimers + 1

\* watchJob.launchLocked: ok is the outcome of cmd.Start
watchJob_launchLocked(triggers, ok) ==
  LET p == w_nlaunch + 1 IN
  /\ w_nlaunch < MaxLaunch
  /\ w_nlaunch' = p
  /\ w_queued' = <<>>
  /\ IF ok
       THEN /\ w_pstate' = [w_pstate EXCEPT ![p] = "running"]
            /\ w_trig' = IF Len(triggers) = 0 THEN <<Trigger("manual", NoPath)>> ELSE triggers
            /\ w_running' = TRUE
            /\ w_cmd' = p
       ELSE /\ w_pstate' = [w_pstate EXCEPT ![p] = "failed"]
            /\ UNCHANGED <<w_running, w_cmd, w_trig>>

scheduleDecision_ignoreRunning ==
  IF w_closed THEN "closed" ELSE "launch"

scheduleDecision_ignoreClosed ==
  IF w_restart
    THEN IF w_running
           THEN IF ~w_restartQueued THEN "request" ELSE "coalesce"
           ELSE "launch"
    ELSE IF w_running THEN "queue" ELSE "launch"

\* which branch scheduleTriggers takes once it holds the mutex
scheduleDecision ==
  IF w_closed THEN "closed"
  ELSE IF w_restart
    THEN IF w_running
           THEN IF ~w_restartQueued THEN "request" ELSE "coalesce"
           ELSE "launch"
    ELSE IF w_running THEN "queue" ELSE "launch"

\* watchJob.scheduleTriggers, the section under j.mu
watchJob_scheduleTriggers(triggers, ok) ==
  LET trig == IF Len(triggers) = 0 THEN <<Trigger("manual", NoPath)>> ELSE triggers
      d == scheduleDecision
  IN
  \/ /\ d = "closed"
     /\ UNCHANGED <<w_running, w_cmd, w_killTimer, wqueues, wprocs, w_term, w_queued, wtimers>>
  \/ /\ d = "request"
     /\ w_pendingRestart' = w_pendingRestart \o trig
     /\ w_restartQueued' = TRUE
     /\ watchJob_stopProcessLocked("sched")
     /\ w_queued' = w_queued \o trig
     /\ UNCHANGED <<w_running, w_cmd, w_pending, wprocs>>
  \/ /\ d = "coalesce"
     /\ w_pendingRestart' = w_pendingRestart \o trig
     /\ w_queued' = w_queued \o trig
     /\ UNCHANGED <<w_running, w_cmd, w_killTimer, w_restartQueued, w_pending, wprocs,
                    w_term, wtimers>>
  \/ /\ d = "queue"
     /\ w_pending' = w_pending \o trig
     /\ w_queued' = w_queued \o trig
     /\ UNCHANGED <<w_running, w_cmd, w_killTimer, w_restartQueued, w_pendingRestart,
                    wprocs, w_term, wtimers>>
  \/ /\ d = "launch"
     /\ IF w_restart
          THEN /\ w_pendingRestart' = <<>>
               /\ watchJob_launchLocked(w_pendingRestart \o trig, ok)
          ELSE /\ watchJob_launchLocked(trig, ok)
               /\ UNCHANGED w_pendingRestart
     /\ UNCHANGED <<w_killTimer, w_restartQueued, w_pending, w_term, wtimers>>

StartTask_always ==
  /\ w_startpc \in {"ready", "none"}
  /\ \E ok \in BOOLEAN : watchJob_scheduleTriggers(<<Trigger("startup", NoPath)>>, ok)
  /\ w_startpc' = "done"
  /\ UNCHANGED <<dvars, muvars, mvars, svars, w_ctor, wcfg, w_closed, wchans, wloop, w_hpc, w_htrig, w_kills, w_cpc, w_atClose>>

\* go job.scheduleTriggers([]Trigger{{Event: "startup"}}) of newWatchJob
StartTask ==
  /\ w_startpc = "ready"
  /\ \E ok \in BOOLEAN : watchJob_scheduleTriggers(<<Trigger("startup", NoPath)>>, ok)
  /\ w_startpc' = "done"
  /\ UNCHANGED <<dvars, muvars, mvars, svars, w_ctor, wcfg, w_closed, wchans, wloop, w_hpc, w_htrig, w_kills, w_cpc, w_atClose>>

\* run(), case <-j.stopCh: stop and drain the debounce timer, return; the
\* deferred notify.Stop and close(doneCh) run, the locals are gone
RunStop ==
  /\ w_rpc = "select"
  /\ w_stopCh
  /\ w_rpc' = "done"
  /\ w_dtimer' = "nil"
  /\ w_rpending' = <<>>
  /\ w_window' = <<>>
  /\ w_subscribed' = FALSE
  /\ w_doneCh' = TRUE
  /\ UNCHANGED <<dvars, muvars, mvars, svars, w_evClosed, w_ctor, wcfg, w_closed, w_running, w_cmd, w_killTimer, wqueues, w_stopCh,
                 w_stops, w_info, w_nevents, w_startpc, w_hpc, w_htrig, wprocs, w_term,
                 w_kills, w_queued, wtimers, w_cpc, w_atClose>>

\* the event source closes j.events
EventsClose ==
  /\ w_subscribed
  /\ ~w_evClosed
  /\ w_rpc # "done"
  /\ w_evClosed' = TRUE
  /\ UNCHANGED <<dvars, muvars, mvars, svars, w_ctor, wcfg, w_closed, w_running, w_cmd, w_killTimer, wqueues,
                 w_stopCh, w_stops, w_doneCh, w_subscribed, wloop, w_startpc, w_hpc, w_htrig,
                 wprocs, w_term, w_kills, w_queued, wtimers, w_cpc, w_atClose>>

RunEventsClosed_noDone ==
  /\ w_rpc = "select"
  /\ w_evClosed
  /\ w_rpc' = "done"
  /\ w_rpending' = <<>>
  /\ w_window' = <<>>
  /\ UNCHANGED <<dvars, muvars, mvars, svars, w_ctor, wcfg, w_closed, w_running, w_cmd, w_killTimer, wqueues,
                 wchans, w_info, w_dtimer, w_nevents, w_startpc, w_hpc, w_htrig,
                 wprocs, w_term, w_kills, w_queued, wtimers, w_cpc, w_atClose>>

\* run(), case info, ok := <-j.events with !ok: return; the deferred
\* notify.Stop and close(doneCh) run, the locals are gone; the debounce
\* timer is not stopped on this path
RunEventsClosed ==
  /\ w_rpc = "select"
  /\ w_evClosed
  /\ w_rpc' = "done"
  /\ w_rpending' = <<>>
  /\ w_window' = <<>>
  /\ w_subscribed' = FALSE
  /\ w_doneCh' = TRUE
  /\ UNCHANGED <<dvars, muvars, mvars, svars, w_ctor, wcfg, w_closed, w_running, w_cmd, w_killTimer, wqueues,
                 w_stopCh, w_stops, w_evClosed, w_info, w_dtimer, w_nevents, w_startpc, w_hpc, w_htrig,
                 wprocs, w_term, w_kills, w_queued, wtimers, w_cpc, w_atClose>>

\* run(), case info := <-j.events: a notification is received
RunReceive(info) ==
  /\ w_rpc = "select"
  /\ w_subscribed
  /\ w_nevents < MaxEvents
  /\ w_nevents' = w_nevents + 1
  /\ w_info' = info
  /\ w_rpc' = "event"
  /\ UNCHANGED <<dvars, muvars, mvars, svars, w_ctor, wcfg, w_closed, w_running, w_cmd, w_killTimer, wqueues, wchans,
                 w_window, w_rpending, w_dtimer, w_startpc, w_hpc, w_htrig, wprocs, w_term,
                 w_kills, w_queued, wtimers, w_cpc, w_atClose>>

RunEvent_loseFire ==
  /\ w_rpc = "event"
  /\ w_rpc' = "select"
  /\ w_info' = NoInfo
  /\ LET triggers == triggersForEvent(w_info) IN
     IF Len(triggers) = 0
       THEN UNCHANGED <<w_rpending, w_dtimer, w_window>>
       ELSE /\ w_rpending' = w_rpending \o triggers
            /\ w_dtimer' = IF w_dtimer = "fired" THEN "nil" ELSE "armed"
            /\ w_window' = Append(w_window, w_info)
  /\ UNCHANGED <<dvars, muvars, mvars, svars, w_ctor, wcfg, w_closed, w_running, w_cmd, w_killTimer, wqueues, wchans,
                 w_nevents, w_startpc, w_hpc, w_htrig, wprocs, w_term, w_kills, w_queued,
                 wtimers, w_cpc, w_atClose>>

\* run(), the body of case info := <-j.events: admit, buffer, (re)arm the
\* debounce timer (a fire not yet received is drained by the re-arm)
RunEvent ==
  /\ w_rpc = "event"
  /\ w_rpc' = "select"
  /\ w_info' = NoInfo
  /\ LET triggers == triggersForEvent(w_info) IN
     IF Len(triggers) = 0
       THEN UNCHANGED <<w_rpending, w_dtimer, w_window>>
       ELSE /\ w_rpending' = w_rpending \o triggers
            /\ w_dtimer' = "armed"
            /\ w_window' = Append(w_window, w_info)
  /\ UNCHANGED <<dvars, muvars, mvars, svars, w_ctor, wcfg, w_closed, w_running, w_cmd, w_killTimer, wqueues, wchans,
                 w_nevents, w_startpc, w_hpc, w_htrig, wprocs, w_term, w_kills, w_queued,
                 wtimers, w_cpc, w_atClose>>

\* the debounce duration elapses: the timer sends on its channel
DebounceElapse ==
  /\ w_dtimer = "armed"
  /\ w_dtimer' = "fired"
  /\ UNCHANGED <<dvars, muvars, mvars, svars, w_ctor, wcfg, w_closed, w_running, w_cmd, w_killTimer, wqueues, wchans, w_rpc,
                 w_info, w_window, w_rpending, w_nevents, w_startpc, w_hpc, w_htrig, wprocs,
                 w_term, w_kills, w_queued, wtimers, w_cpc, w_atClose>>

\* run(), case <-debounceChan: forget the timer, enter handleTriggers
RunDebounce ==
  /\ w_rpc = "select"
  /\ w_dtimer = "fired"
  /\ w_dtimer' = "nil"
  /\ w_rpc' = IF Len(w_rpending) > 0 /\ Len(dedupeTriggers(w_rpending)) > 0
                THEN "sched" ELSE "select"
  /\ w_rpending' = IF Len(w_rpending) > 0 /\ Len(dedupeTriggers(w_rpending)) = 0
                     THEN <<>> ELSE w_rpending
  /\ w_window' = IF Len(w_rpending) > 0 /\ Len(dedupeTriggers(w_rpending)) = 0
                   THEN <<>> ELSE w_window
  /\ UNCHANGED <<dvars, muvars, mvars, svars, w_ctor, wcfg, w_closed, w_running, w_cmd, w_killTimer, wqueues, wchans,
                 w_info, w_nevents, w_startpc, w_hpc, w_htrig, wprocs, w_term, w_kills,
                 w_queued, wtimers, w_cpc, w_atClose>>

\* handleTriggers: scheduleTriggers(dedupeTriggers(pending)); then pending = nil
RunSchedule ==
  /\ w_rpc = "sched"
  /\ \E ok \in BOOLEAN : watchJob_scheduleTriggers(dedupeTriggers(w_rpending), ok)
  /\ w_rpending' = <<>>
  /\ w_window' = <<>>
  /\ w_rpc' = "select"
  /\ UNCHANGED <<dvars, muvars, mvars, svars, w_ctor, wcfg, w_closed, wchans, w_info, w_dtimer, w_nevents, w_startpc, w_hpc,
                 w_htrig, w_kills, w_cpc, w_atClose>>

\* the process ends (by itself or because of a signal it received)
ProcExit(p) ==
  /\ w_pstate[p] = "running"
  /\ w_pstate' = [w_pstate EXCEPT ![p] = "exited"]
  /\ UNCHANGED <<dvars, muvars, mvars, svars, w_ctor, wcfg, w_closed, w_running, w_cmd, w_killTimer, wqueues, wchans, wloop,
                 w_startpc, w_hpc, w_htrig, w_trig, w_nlaunch, w_term, w_kills,
                 w_queued, wtimers, w_cpc, w_atClose>>

\* waitForExit after the mutex is released: the triggers it reschedules
exitTriggers(closed, restartQueued, pending, pendingRestart) ==
  IF closed THEN <<>>
  ELSE IF w_restart
    THEN IF Len(pendingRestart) > 0 THEN pendingRestart
         ELSE IF restartQueued \/ w_runOnStart THEN <<Trigger("restart", NoPath)>>
         ELSE <<>>
    ELSE pending

ExitCapture_keepRestartQueued(p) ==
  /\ w_hpc[p] = "wait"
  /\ w_pstate[p] = "exited"
  /\ w_pstate' = [w_pstate EXCEPT ![p] = "reaped"]
  /\ w_tstate' = IF w_killTimer # 0 /\ w_tstate[w_killTimer] = "armed"
                   THEN [w_tstate EXCEPT ![w_killTimer] = "stopped"] ELSE w_tstate
  /\ w_killTimer' = 0
  /\ w_cmd' = IF w_cmd = p THEN 0 ELSE w_cmd
  /\ w_trig' = IF w_cmd = p THEN <<>> ELSE w_trig
  /\ w_running' = FALSE
  /\ w_pending' = <<>>
  /\ w_pendingRestart' = <<>>
  /\ w_restartQueued' = w_restartQueued
  /\ LET next == exitTriggers(w_closed, w_restartQueued, w_pending, w_pendingRestart) IN
     /\ w_htrig' = [w_htrig EXCEPT ![p] = next]
     /\ w_hpc' = [w_hpc EXCEPT ![p] = IF Len(next) > 0 THEN "resched" ELSE "done"]
  /\ UNCHANGED <<dvars, muvars, mvars, svars, w_ctor, wcfg, w_closed, wchans, wloop, w_startpc, w_nlaunch, w_term,
                 w_kills, w_queued, w_tproc, w_ntimers, w_cpc, w_atClose>>

\* waitForExit: cmd.Wait() returns (the process is reaped), then the section
\* under j.mu: stop the kill timer, clear the handle, capture the queues
ExitCapture(p) ==
  /\ w_hpc[p] = "wait"
  /\ w_pstate[p] = "exited"
  /\ w_pstate' = [w_pstate EXCEPT ![p] = "reaped"]
  /\ w_tstate' = IF w_killTimer # 0 /\ w_tstate[w_killTimer] = "armed"
                   THEN [w_tstate EXCEPT ![w_killTimer] = "stopped"] ELSE w_tstate
  /\ w_killTimer' = 0
  /\ w_cmd' = IF w_cmd = p THEN 0 ELSE w_cmd
  /\ w_trig' = IF w_cmd = p THEN <<>> ELSE w_trig
  /\ w_running' = FALSE
  /\ w_pending' = <<>>
  /\ w_pendingRestart' = <<>>
  /\ w_restartQueued' = FALSE
  /\ LET next == exitTriggers(w_closed, w_restartQueued, w_pending, w_pendingRestart) IN
     /\ w_htrig' = [w_htrig EXCEPT ![p] = next]
     /\ w_hpc' = [w_hpc EXCEPT ![p] = IF Len(next) > 0 THEN "resched" ELSE "done"]
  /\ UNCHANGED <<dvars, muvars, mvars, svars, w_ctor, wcfg, w_closed, wchans, wloop, w_startpc, w_nlaunch, w_term,
                 w_kills, w_queued, w_tproc, w_ntimers, w_cpc, w_atClose>>

\* waitForExit: j.scheduleTriggers(triggers)
ExitReschedule(p) ==
  /\ w_hpc[p] = "resched"
  /\ \E ok \in BOOLEAN : watchJob_scheduleTriggers(w_htrig[p], ok)
  /\ w_hpc' = [w_hpc EXCEPT ![p] = "done"]
  /\ w_htrig' = [w_htrig EXCEPT ![p] = <<>>]
  /\ UNCHANGED <<dvars, muvars, mvars, svars, w_ctor, wcfg, w_closed, wchans, wloop, w_startpc, w_kills, w_cpc, w_atClose>>

\* the kill timeout elapses: the AfterFunc callback starts
KillTimerFire(t) ==
  /\ w_tstate[t] = "armed"
  /\ w_tstate' = [w_tstate EXCEPT ![t] = "firing"]
  /\ UNCHANGED <<dvars, muvars, mvars, svars, w_ctor, wcfg, w_closed, w_running, w_cmd, w_killTimer, wqueues, wchans, wloop,
                 w_startpc, w_hpc, w_htrig, wprocs, w_term, w_kills, w_queued, w_tproc,
                 w_ntimers, w_cpc, w_atClose>>

killGuard_anyHandle(t) == w_cmd # 0

killGuard_never(t) == FALSE

\* the callback's test under j.mu: is the captured process still j.cmd.Process
killGuard(t) == w_cmd # 0 /\ w_cmd = w_tproc[t]

\* the AfterFunc callback of stopProcessLocked
KillTimerCallback(t) ==
  /\ w_tstate[t] = "firing"
  /\ w_tstate' = [w_tstate EXCEPT ![t] = "done"]
  /\ w_kills' = IF killGuard(t) THEN [w_kills EXCEPT ![w_tproc[t]] = @ + 1] ELSE w_kills
  /\ UNCHANGED <<dvars, muvars, mvars, svars, w_ctor, wcfg, w_closed, w_running, w_cmd, w_killTimer, wqueues, wchans, wloop,
                 w_startpc, w_hpc, w_htrig, wprocs, w_term, w_queued, w_tproc,
                 w_ntimers, w_cpc, w_atClose>>

watchJob_Close_again(c) ==
  /\ w_cpc[c] = "idle"
  /\ \A d \in Closers : d < c => w_cpc[d] # "idle"
  /\ w_cpc' = [w_cpc EXCEPT ![c] = "wait"]
  /\ w_closed' = TRUE
  /\ w_pending' = <<>>
  /\ w_pendingRestart' = <<>>
  /\ w_restartQueued' = FALSE
  /\ w_stopCh' = TRUE
  /\ w_stops' = w_stops + 1
  /\ watchJob_stopProcessLocked("close")
  /\ w_atClose' = IF w_closed THEN w_atClose ELSE wLive
  /\ UNCHANGED <<dvars, muvars, mvars, svars, w_evClosed, w_ctor, wcfg, w_running, w_cmd, w_doneCh, w_subscribed, wloop, w_startpc, w_hpc,
                 w_htrig, wprocs, w_kills, w_queued>>

closeQueues_kept ==
  [pending |-> w_pending, pendingRestart |-> w_pendingRestart,
   restartQueued |-> w_restartQueued]

\* watchJob.Close: j.pending = nil; j.pendingRestart = nil; j.restartQueued = false
closeQueues ==
  [pending |-> <<>>, pendingRestart |-> <<>>, restartQueued |-> FALSE]

\* watchJob.Close up to j.mu.Unlock(). The callers are interchangeable, so
\* caller c + 1 is taken to call no earlier than caller c.
watchJob_Close(c) ==
  /\ w_cpc[c] = "idle"
  /\ \A d \in Closers : d < c => w_cpc[d] # "idle"
  /\ w_cpc' = [w_cpc EXCEPT ![c] = "wait"]
  /\ IF w_closed
       THEN UNCHANGED <<w_closed, wqueues, w_stopCh, w_stops, w_term, w_killTimer, wtimers, w_atClose>>
       ELSE /\ w_closed' = TRUE
            /\ w_pending' = closeQueues.pending
            /\ w_pendingRestart' = closeQueues.pendingRestart
            /\ w_restartQueued' = closeQueues.restartQueued
            /\ w_stopCh' = TRUE
            /\ w_stops' = w_stops + 1
            /\ watchJob_stopProcessLocked("close")
            /\ w_atClose' = wLive
  /\ UNCHANGED <<dvars, muvars, mvars, svars, w_evClosed, w_ctor, wcfg, w_running, w_cmd, w_doneCh, w_subscribed, wloop, w_startpc, w_hpc,
                 w_htrig, wprocs, w_kills, w_queued>>

watchJob_CloseReturn_noWait(c) ==
  /\ w_cpc[c] = "wait"
  /\ w_cpc' = [w_cpc EXCEPT ![c] = "returned"]
  /\ UNCHANGED <<dvars, muvars, mvars, svars, w_ctor, wcfg, w_closed, w_running, w_cmd, w_killTimer, wqueues, wchans, wloop,
                 w_startpc, w_hpc, w_htrig, wprocs, w_term, w_kills, w_queued, wtimers,
                 w_atClose>>

\* watchJob.Close: <-j.doneCh; return nil
watchJob_CloseReturn(c) ==
  /\ w_cpc[c] = "wait"
  /\ w_doneCh
  /\ w_cpc' = [w_cpc EXCEPT ![c] = "returned"]
  /\ UNCHANGED <<dvars, muvars, mvars, svars, w_ctor, wcfg, w_closed, w_running, w_cmd, w_killTimer, wqueues, wchans, wloop,
                 w_startpc, w_hpc, w_htrig, wprocs, w_term, w_kills, w_queued, wtimers,
                 w_atClose>>

watchJob_Next ==
  \/ StartTask
  \/ RunStop
  \/ \E info \in Notifications : RunReceive(info)
  \/ RunEvent
  \/ DebounceElapse
  \/ RunDebounce
  \/ RunSchedule
  \/ \E p \in Pids : ProcExit(p)
  \/ \E p \in Pids : ExitCapture(p)
  \/ \E p \in Pids : ExitReschedule(p)
  \/ \E t \in Timers : KillTimerFire(t)
  \/ \E t \in Timers : KillTimerCallback(t)
  \/ \E c \in Closers : watchJob_Close(c)
  \/ \E c \in Closers : watchJob_CloseReturn(c)

\* =============================================================== serverJob
\* processes spawned and not yet reaped by cmd.Wait
sLive == {p \in SPids : s_pstate[p] \in {"running", "exited"}}

serverJob_Init ==
  /\ s_ctor = "job"
  /\ s_err = "nil"
  /\ s_restart \in BOOLEAN
  /\ s_usePTY \in BOOLEAN
  /\ s_closed = FALSE
  /\ s_cmd = 0
  /\ s_pty = 0
  /\ s_killTimer = FALSE
  /\ s_stopCh = FALSE
  /\ s_stops = 0
  /\ s_doneCh = FALSE
  /\ s_rpc = "launch"
  /\ s_pstate = [p \in SPids |-> "none"]
  /\ s_ptyOpen = [p \in SPids |-> FALSE]
  /\ s_copies = [p \in SPids |-> 0]
  /\ s_term = [p \in SPids |-> 0]
  /\ s_kills = [p \in SPids |-> 0]
  /\ s_nspawn = 0
  /\ s_tstate = "none"
  /\ s_tproc = 0
  /\ s_cpc = [c \in Closers |-> "idle"]

\* the values the server variables hold in a specification without a server job
serverJob_Absent ==
  /\ s_ctor = "none"
  /\ s_err = "nil"
  /\ s_restart = FALSE
  /\ s_usePTY = FALSE
  /\ s_closed = FALSE
  /\ s_cmd = 0
  /\ s_pty = 0
  /\ s_killTimer = FALSE
  /\ s_stopCh = FALSE
  /\ s_stops = 0
  /\ s_doneCh = FALSE
  /\ s_rpc = "absent"
  /\ s_pstate = [p \in SPids |-> "none"]
  /\ s_ptyOpen = [p \in SPids |-> FALSE]
  /\ s_copies = [p \in SPids |-> 0]
  /\ s_term = [p \in SPids |-> 0]
  /\ s_kills = [p \in SPids |-> 0]
  /\ s_nspawn = 0
  /\ s_tstate = "none"
  /\ s_tproc = 0
  /\ s_cpc = [c \in Closers |-> "absent"]

\* newServerJob has been called with a spec and has not started the run
\* loop yet
serverJob_New ==
  /\ s_ctor = "call"
  /\ s_err = "nil"
  /\ s_restart \in BOOLEAN
  /\ s_usePTY \in BOOLEAN
  /\ s_closed = FALSE
  /\ s_cmd = 0
  /\ s_pty = 0
  /\ s_killTimer = FALSE
  /\ s_stopCh = FALSE
  /\ s_stops = 0
  /\ s_doneCh = FALSE
  /\ s_rpc = "none"
  /\ s_pstate = [p \in SPids |-> "none"]
  /\ s_ptyOpen = [p \in SPids |-> FALSE]
  /\ s_copies = [p \in SPids |-> 0]
  /\ s_term = [p \in SPids |-> 0]
  /\ s_kills = [p \in SPids |-> 0]
  /\ s_nspawn = 0
  /\ s_tstate = "none"
  /\ s_tproc = 0
  /\ s_cpc = [c \in Closers |-> "absent"]

\* newServerJob: build the job, go job.run(), return (job, nil); the log
\* path is not looked at. Its holder may Close the job from then on.
newServerJob ==
  /\ s_ctor = "call"
  /\ s_ctor' = "job"
  /\ s_rpc' = "launch"
  /\ s_cpc' = [c \in Closers |-> "idle"]
  /\ UNCHANGED <<dvars, muvars, mvars, wvars, s_err, scfg, s_closed, shandles, schans, sprocs, s_ptyOpen,
                 s_copies, ssignals, stimer>>

\* launchOnce: if j.isClosed() { return nil }
launchGuard == ~s_closed

LaunchCheck ==
  /\ s_rpc = "launch"
  /\ s_rpc' = IF launchGuard THEN "open" ELSE "after"
  /\ UNCHANGED <<dvars, muvars, mvars, wvars, s_ctor, s_err, scfg, s_closed, shandles, schans, sprocs, s_ptyOpen, s_copies,
                 ssignals, stimer, s_cpc>>

\* launchOnce: openLogFile and the start banner; ok is their outcome
LaunchOpenLog ==
  /\ s_rpc = "open"
  /\ \E ok \in BOOLEAN :
       /\ s_rpc' = IF ok THEN "spawn" ELSE "after"
       /\ s_err' = IF ok THEN s_err ELSE "log"
  /\ UNCHANGED <<dvars, muvars, mvars, wvars, s_ctor, scfg, s_closed, shandles, schans, sprocs, s_ptyOpen, s_copies,
                 ssignals, stimer, s_cpc>>

\* launchOnce: pty.Start(cmd) or cmd.Start(); ok is its outcome. Once
\* MaxSpawn attempts were made, every further attempt is one that fails.
LaunchSpawn ==
  /\ s_rpc = "spawn"
  /\ \E ok \in BOOLEAN :
       IF ok
         THEN /\ s_nspawn < MaxSpawn
              /\ s_nspawn' = s_nspawn + 1
              /\ s_pstate' = [s_pstate EXCEPT ![s_nspawn + 1] = "running"]
              /\ s_ptyOpen' = [s_ptyOpen EXCEPT ![s_nspawn + 1] = s_usePTY]
              /\ s_rpc' = "setproc"
              /\ UNCHANGED s_err
         ELSE /\ s_rpc' = "after"
              /\ s_err' = "start"
              /\ UNCHANGED <<sprocs, s_ptyOpen>>
  /\ UNCHANGED <<dvars, muvars, mvars, wvars, s_ctor, scfg, s_closed, shandles, schans, s_copies, ssignals, stimer, s_cpc>>

\* launchOnce: j.setProcess(cmd, ptmx), then the copy tasks are started
LaunchSetProcess ==
  /\ s_rpc = "setproc"
  /\ s_cmd' = s_nspawn
  /\ s_pty' = IF s_usePTY THEN s_nspawn ELSE 0
  /\ s_copies' = [s_copies EXCEPT ![s_nspawn] = IF s_usePTY THEN 1 ELSE 2]
  /\ s_rpc' = "wait"
  /\ UNCHANGED <<dvars, muvars, mvars, wvars, s_ctor, s_err, scfg, s_closed, schans, sprocs, s_ptyOpen, ssignals, stimer, s_cpc>>

\* the process ends (by itself or because of a signal it received)
SProcExit(p) ==
  /\ s_pstate[p] = "running"
  /\ s_pstate' = [s_pstate EXCEPT ![p] = "exited"]
  /\ UNCHANGED <<dvars, muvars, mvars, wvars, s_ctor, s_err, scfg, s_closed, shandles, schans, s_rpc, s_nspawn, s_ptyOpen, s_copies,
                 ssignals, stimer, s_cpc>>

\* one io.Copy task returns: its stream ended with the process, or the pty
\* master it reads was closed
CopyDone(p) ==
  /\ s_copies[p] > 0
  /\ \/ s_pstate[p] \in {"exited", "reaped"}
     \/ s_usePTY /\ ~s_ptyOpen[p]
  /\ s_copies' = [s_copies EXCEPT ![p] = @ - 1]
  /\ UNCHANGED <<dvars, muvars, mvars, wvars, s_ctor, s_err, scfg, s_closed, shandles, schans, s_rpc, sprocs, s_ptyOpen, ssignals,
                 stimer, s_cpc>>

\* launchOnce: waitErr = cmd.Wait(); in pty mode, ptmx.Close()
LaunchWait ==
  /\ s_rpc = "wait"
  /\ s_pstate[s_nspawn] = "exited"
  /\ s_pstate' = [s_pstate EXCEPT ![s_nspawn] = "reaped"]
  /\ s_ptyOpen' = [s_ptyOpen EXCEPT ![s_nspawn] = FALSE]
  /\ s_rpc' = "wgwait"
  /\ UNCHANGED <<dvars, muvars, mvars, wvars, s_ctor, s_err, scfg, s_closed, shandles, schans, s_nspawn, s_copies, ssignals, stimer,
                 s_cpc>>

LaunchWgWait_noWait ==
  /\ s_rpc = "wgwait"
  /\ s_rpc' = "clear"
  /\ UNCHANGED <<dvars, muvars, mvars, wvars, s_ctor, s_err, scfg, s_closed, shandles, schans, sprocs, s_ptyOpen, s_copies,
                 ssignals, stimer, s_cpc>>

\* launchOnce: wg.Wait()
LaunchWgWait ==
  /\ s_rpc = "wgwait"
  /\ s_copies[s_nspawn] = 0
  /\ s_rpc' = "clear"
  /\ UNCHANGED <<dvars, muvars, mvars, wvars, s_ctor, s_err, scfg, s_closed, shandles, schans, sprocs, s_ptyOpen, s_copies,
                 ssignals, stimer, s_cpc>>

\* launchOnce: j.clearProcess(); return waitErr (nil, or the exit error)
LaunchClearProcess ==
  /\ s_rpc = "clear"
  /\ s_err' \in {"nil", "exit"}
  /\ s_tstate' = IF s_killTimer /\ s_tstate = "armed" THEN "stopped" ELSE s_tstate
  /\ s_killTimer' = FALSE
  /\ s_cmd' = 0
  /\ s_pty' = 0
  /\ s_rpc' = "after"
  /\ UNCHANGED <<dvars, muvars, mvars, wvars, s_ctor, scfg, s_closed, schans, sprocs, s_ptyOpen, s_copies, ssignals, s_tproc,
                 s_cpc>>

RunAfterLaunch_retryNow ==
  /\ s_rpc = "after"
  /\ IF s_closed \/ ~s_restart
       THEN s_rpc' = "done" /\ s_doneCh' = TRUE
       ELSE s_rpc' = (IF s_err \in {"log", "start"} THEN "launch" ELSE "delay")
            /\ UNCHANGED s_doneCh
  /\ s_err' = "nil"
  /\ UNCHANGED <<dvars, muvars, mvars, wvars, s_ctor, scfg, s_closed, shandles, s_stopCh, s_stops, sprocs, s_ptyOpen, s_copies,
                 ssignals, stimer, s_cpc>>

RunAfterLaunch_alwaysLoop ==
  /\ s_rpc = "after"
  /\ IF s_closed
       THEN s_rpc' = "done" /\ s_doneCh' = TRUE
       ELSE s_rpc' = "delay" /\ UNCHANGED s_doneCh
  /\ s_err' = "nil"
  /\ UNCHANGED <<dvars, muvars, mvars, wvars, s_ctor, scfg, s_closed, shandles, s_stopCh, s_stops, sprocs, s_ptyOpen, s_copies,
                 ssignals, stimer, s_cpc>>

\* run(): log err unless closed; if j.isClosed() || !j.cfg.Restart { return },
\* with the deferred close(j.doneCh)
RunAfterLaunch ==
  /\ s_rpc = "after"
  /\ IF s_closed \/ ~s_restart
       THEN s_rpc' = "done" /\ s_doneCh' = TRUE
       ELSE s_rpc' = "delay" /\ UNCHANGED s_doneCh
  /\ s_err' = "nil"
  /\ UNCHANGED <<dvars, muvars, mvars, wvars, s_ctor, scfg, s_closed, shandles, s_stopCh, s_stops, sprocs, s_ptyOpen, s_copies,
                 ssignals, stimer, s_cpc>>

\* waitForRestart: case <-timer.C, the restart delay has elapsed
RestartDelayElapsed ==
  /\ s_rpc = "delay"
  /\ s_rpc' = "delaychk"
  /\ UNCHANGED <<dvars, muvars, mvars, wvars, s_ctor, s_err, scfg, s_closed, shandles, schans, sprocs, s_ptyOpen, s_copies,
                 ssignals, stimer, s_cpc>>

RestartDelayCheck_ignoreClosed ==
  /\ s_rpc = "delaychk"
  /\ s_rpc' = "launch"
  /\ UNCHANGED <<dvars, muvars, mvars, wvars, s_ctor, s_err, scfg, s_closed, shandles, schans, sprocs, s_ptyOpen, s_copies,
                 ssignals, stimer, s_cpc>>

\* waitForRestart: return !j.isClosed(); run() loops or returns
RestartDelayCheck ==
  /\ s_rpc = "delaychk"
  /\ IF s_closed
       THEN s_rpc' = "done" /\ s_doneCh' = TRUE
       ELSE s_rpc' = "launch" /\ UNCHANGED s_doneCh
  /\ UNCHANGED <<dvars, muvars, mvars, wvars, s_ctor, s_err, scfg, s_closed, shandles, s_stopCh, s_stops, sprocs, s_ptyOpen, s_copies,
                 ssignals, stimer, s_cpc>>

\* waitForRestart: case <-j.stopCh: return false; run() returns
RestartDelayStopped ==
  /\ s_rpc = "delay"
  /\ s_stopCh
  /\ s_rpc' = "done"
  /\ s_doneCh' = TRUE
  /\ UNCHANGED <<dvars, muvars, mvars, wvars, s_ctor, s_err, scfg, s_closed, shandles, s_stopCh, s_stops, sprocs, s_ptyOpen, s_copies,
                 ssignals, stimer, s_cpc>>

\* serverJob.stopProcessLocked: close the pty, SIGTERM, arm the kill timer
\* (stopping the previous one)
serverJob_stopProcessLocked ==
  /\ s_ptyOpen' = IF s_pty # 0 THEN [s_ptyOpen EXCEPT ![s_pty] = FALSE] ELSE s_ptyOpen
  /\ s_pty' = 0
  /\ IF s_cmd = 0
       THEN UNCHANGED <<s_term, stimer>>
       ELSE /\ s_term' = [s_term EXCEPT ![s_cmd] = @ + 1]
            /\ s_tstate' = "armed"
            /\ s_tproc' = s_cmd
            /\ s_killTimer' = TRUE

\* the kill timeout elapses: the AfterFunc callback starts
SKillTimerFire ==
  /\ s_tstate = "armed"
  /\ s_tstate' = "firing"
  /\ UNCHANGED <<dvars, muvars, mvars, wvars, s_ctor, s_err, scfg, s_closed, shandles, schans, s_rpc, sprocs, s_ptyOpen, s_copies,
                 ssignals, s_killTimer, s_tproc, s_cpc>>

\* the callback's test under j.mu: is the captured process still j.cmd.Process
sKillGuard == s_cmd # 0 /\ s_cmd = s_tproc

\* the AfterFunc callback of stopProcessLocked
SKillTimerCallback ==
  /\ s_tstate = "firing"
  /\ s_tstate' = "done"
  /\ s_kills' = IF sKillGuard THEN [s_kills EXCEPT ![s_tproc] = @ + 1] ELSE s_kills
  /\ UNCHANGED <<dvars, muvars, mvars, wvars, s_ctor, s_err, scfg, s_closed, shandles, schans, s_rpc, sprocs, s_ptyOpen, s_copies,
                 s_term, s_killTimer, s_tproc, s_cpc>>

\* serverJob.Close up to j.mu.Unlock(). The callers are interchangeable, so
\* caller c + 1 is taken to call no earlier than caller c.
serverJob_Close(c) ==
  /\ s_cpc[c] = "idle"
  /\ \A d \in Closers : d < c => s_cpc[d] # "idle"
  /\ s_cpc' = [s_cpc EXCEPT ![c] = "wait"]
  /\ IF s_closed
       THEN UNCHANGED <<s_closed, s_stopCh, s_stops, s_pty, s_ptyOpen, s_term, stimer>>
       ELSE /\ s_closed' = TRUE
            /\ s_stopCh' = TRUE
            /\ s_stops' = s_stops + 1
            /\ serverJob_stopProcessLocked
  /\ UNCHANGED <<dvars, muvars, mvars, wvars, s_ctor, s_err, scfg, s_cmd, s_doneCh, s_rpc, sprocs, s_copies, s_kills>>

serverJob_CloseReturn_noWait(c) ==
  /\ s_cpc[c] = "wait"
  /\ s_cpc' = [s_cpc EXCEPT ![c] = "returned"]
  /\ UNCHANGED <<dvars, muvars, mvars, wvars, s_ctor, s_err, scfg, s_closed, shandles, schans, s_rpc, sprocs, s_ptyOpen, s_copies,
                 ssignals, stimer>>

\* serverJob.Close: <-j.doneCh; return nil
serverJob_CloseReturn(c) ==
  /\ s_cpc[c] = "wait"
  /\ s_doneCh
  /\ s_cpc' = [s_cpc EXCEPT ![c] = "returned"]
  /\ UNCHANGED <<dvars, muvars, mvars, wvars, s_ctor, s_err, scfg, s_closed, shandles, schans, s_rpc, sprocs, s_ptyOpen, s_copies,
                 ssignals, stimer>>

serverJob_Next ==
  \/ LaunchCheck
  \/ LaunchOpenLog
  \/ LaunchSpawn
  \/ LaunchSetProcess
  \/ \E p \in SPids : SProcExit(p)
  \/ \E p \in SPids : CopyDone(p)
  \/ LaunchWait
  \/ LaunchWgWait
  \/ LaunchClearProcess
  \/ RunAfterLaunch
  \/ RestartDelayElapsed
  \/ RestartDelayCheck
  \/ RestartDelayStopped
  \/ SKillTimerFire
  \/ SKillTimerCallback
  \/ \E c \in Closers : serverJob_Close(c)
  \/ \E c \in Closers : serverJob_CloseReturn(c)

\* ================================================================= manager
manager_Init ==
  /\ m_kind \in {"watch", "server"}
  /\ m_serial = TRUE
  /\ m_jobs = <<>>
  /\ m_job = [j \in JobIds |-> "none"]
  /\ m_op = [k \in Calls |-> "none"]
  /\ m_pc = [k \in Calls |-> "idle"]
  /\ m_old = [k \in Calls |-> <<>>]
  /\ m_new = [k \in Calls |-> <<>>]
  /\ m_n = [k \in Calls |-> 0]
  /\ m_i = [k \in Calls |-> 0]

\* a manager whose callers may call while another call is running
manager_InitConcurrent ==
  /\ m_kind \in {"watch", "server"}
  /\ m_serial = FALSE
  /\ m_jobs = <<>>
  /\ m_job = [j \in JobIds |-> "none"]
  /\ m_op = [k \in Calls |-> "none"]
  /\ m_pc = [k \in Calls |-> "idle"]
  /\ m_old = [k \in Calls |-> <<>>]
  /\ m_new = [k \in Calls |-> <<>>]
  /\ m_n = [k \in Calls |-> 0]
  /\ m_i = [k \in Calls |-> 0]

\* the values the manager variables hold in a specification without a manager
manager_Absent ==
  /\ m_kind = "none"
  /\ m_serial = TRUE
  /\ m_jobs = <<>>
  /\ m_job = [j \in JobIds |-> "none"]
  /\ m_op = [k \in Calls |-> "none"]
  /\ m_pc = [k \in Calls |-> "absent"]
  /\ m_old = [k \in Calls |-> <<>>]
  /\ m_new = [k \in Calls |-> <<>>]
  /\ m_n = [k \in Calls |-> 0]
  /\ m_i = [k \in Calls |-> 0]

\* call k is between its first swapJobs and its return
mActive(k) == m_pc[k] \notin {"idle", "returned", "absent"}

\* call k may begin. The calls are interchangeable, so call k + 1 is taken
\* to begin no earlier than call k.
mMayCall(k) ==
  /\ m_pc[k] = "idle"
  /\ \A d \in Calls : d < k => m_pc[d] # "idle"
  /\ m_serial => \A d \in Calls : ~mActive(d)

\* Apply: oldJobs := m.swapJobs(nil), called with n specs
Manager_ApplySwap(k, n) ==
  /\ mMayCall(k)
  /\ m_op' = [m_op EXCEPT ![k] = "Apply"]
  /\ m_n' = [m_n EXCEPT ![k] = n]
  /\ m_old' = [m_old EXCEPT ![k] = m_jobs]
  /\ m_jobs' = <<>>
  /\ m_i' = [m_i EXCEPT ![k] = 1]
  /\ m_pc' = [m_pc EXCEPT ![k] = "close"]
  /\ UNCHANGED <<dvars, muvars, wvars, svars, m_kind, m_serial, m_job, m_new>>

\* StopAll: jobs := m.swapJobs(nil)
Manager_StopAllSwap(k) ==
  /\ mMayCall(k)
  /\ m_op' = [m_op EXCEPT ![k] = "StopAll"]
  /\ m_old' = [m_old EXCEPT ![k] = m_jobs]
  /\ m_jobs' = <<>>
  /\ m_i' = [m_i EXCEPT ![k] = 1]
  /\ m_pc' = [m_pc EXCEPT ![k] = "close"]
  /\ UNCHANGED <<dvars, muvars, wvars, svars, m_kind, m_serial, m_job, m_new, m_n>>

Manager_CloseJob_skip(k) ==
  /\ m_pc[k] = "close"
  /\ m_i[k] <= Len(m_old[k])
  /\ m_i' = [m_i EXCEPT ![k] = @ + 1]
  /\ UNCHANGED <<dvars, muvars, wvars, svars, m_kind, m_serial, m_jobs, m_job, m_op, m_pc, m_old, m_new, m_n>>

\* the loop over the old jobs: job.Close() is called; the first Close on a
\* job sets closed and stops it, a later one only waits
Manager_CloseJob(k) ==
  /\ m_pc[k] = "close"
  /\ m_i[k] <= Len(m_old[k])
  /\ m_job' = [m_job EXCEPT ![m_old[k][m_i[k]]] = IF @ = "running" THEN "closing" ELSE @]
  /\ m_pc' = [m_pc EXCEPT ![k] = "closewait"]
  /\ UNCHANGED <<dvars, muvars, wvars, svars, m_kind, m_serial, m_jobs, m_op, mlocals>>

\* the run loop of a job that was closed exits and closes doneCh
Manager_JobDone(j) ==
  /\ m_job[j] = "closing"
  /\ m_job' = [m_job EXCEPT ![j] = "closed"]
  /\ UNCHANGED <<dvars, muvars, wvars, svars, m_kind, m_serial, m_jobs, m_op, m_pc, mlocals>>

Manager_CloseReturned_noWait(k) ==
  /\ m_pc[k] = "closewait"
  /\ m_i' = [m_i EXCEPT ![k] = @ + 1]
  /\ m_pc' = [m_pc EXCEPT ![k] = "close"]
  /\ UNCHANGED <<dvars, muvars, wvars, svars, m_kind, m_serial, m_jobs, m_job, m_op, m_old, m_new, m_n>>

\* job.Close() returns: the job's doneCh is closed
Manager_CloseReturned(k) ==
  /\ m_pc[k] = "closewait"
  /\ m_job[m_old[k][m_i[k]]] = "closed"
  /\ m_i' = [m_i EXCEPT ![k] = @ + 1]
  /\ m_pc' = [m_pc EXCEPT ![k] = "close"]
  /\ UNCHANGED <<dvars, muvars, wvars, svars, m_kind, m_serial, m_jobs, m_job, m_op, m_old, m_new, m_n>>

\* the loop over the old jobs ends: StopAll returns, Apply goes on to
\* newJobs := make(...) and the loop over the specs
Manager_CloseLoopEnd(k) ==
  /\ m_pc[k] = "close"
  /\ m_i[k] > Len(m_old[k])
  /\ m_pc' = [m_pc EXCEPT ![k] = IF m_op[k] = "Apply" THEN "build" ELSE "returned"]
  /\ m_i' = [m_i EXCEPT ![k] = 1]
  /\ UNCHANGED <<dvars, muvars, wvars, svars, m_kind, m_serial, m_jobs, m_job, m_op, m_old, m_new, m_n>>

Manager_NewJob_abortOnError(k) ==
  /\ m_pc[k] = "build"
  /\ m_i[k] <= m_n[k]
  /\ \E ok \in BOOLEAN :
       /\ ok \/ m_kind = "watch"
       /\ m_job' = [m_job EXCEPT ![<<k, m_i[k]>>] = IF ok THEN "running" ELSE "failed"]
       /\ m_new' = [m_new EXCEPT ![k] = IF ok THEN Append(@, <<k, m_i[k]>>) ELSE @]
       /\ m_i' = [m_i EXCEPT ![k] = IF ok THEN @ + 1 ELSE m_n[k] + 1]
  /\ UNCHANGED <<dvars, muvars, wvars, svars, m_kind, m_serial, m_jobs, m_op, m_pc, m_old, m_n>>

\* the loop over the specs: newWatchJob / newServerJob; ok is its outcome
\* (newServerJob has no error return). A job that was constructed runs; on
\* an error the loop logs and continues with the next spec.
Manager_NewJob(k) ==
  /\ m_pc[k] = "build"
  /\ m_i[k] <= m_n[k]
  /\ \E ok \in BOOLEAN :
       /\ ok \/ m_kind = "watch"
       /\ m_job' = [m_job EXCEPT ![<<k, m_i[k]>>] = IF ok THEN "running" ELSE "failed"]
       /\ m_new' = [m_new EXCEPT ![k] = IF ok THEN Append(@, <<k, m_i[k]>>) ELSE @]
  /\ m_i' = [m_i EXCEPT ![k] = @ + 1]
  /\ UNCHANGED <<dvars, muvars, wvars, svars, m_kind, m_serial, m_jobs, m_op, m_pc, m_old, m_n>>

\* Apply: m.swapJobs(newJobs), then Apply returns
Manager_ApplyStore(k) ==
  /\ m_pc[k] = "build"
  /\ m_i[k] > m_n[k]
  /\ m_jobs' = m_new[k]
  /\ m_pc' = [m_pc EXCEPT ![k] = "returned"]
  /\ UNCHANGED <<dvars, muvars, wvars, svars, m_kind, m_serial, m_job, m_op, mlocals>>

manager_Next ==
  \/ \E k \in Calls : \E n \in 0..MaxSpecs : Manager_ApplySwap(k, n)
  \/ \E k \in Calls : Manager_StopAllSwap(k)
  \/ \E k \in Calls : Manager_CloseJob(k)
  \/ \E j \in JobIds : Manager_JobDone(j)
  \/ \E k \in Calls : Manager_CloseReturned(k)
  \/ \E k \in Calls : Manager_CloseLoopEnd(k)
  \/ \E k \in Calls : Manager_NewJob(k)
  \/ \E k \in Calls : Manager_ApplyStore(k)

\* ================================================================== daemon
\* a configuration: the numbers of its [[watchers]] and [[servers]] entries;
\* ok is false for a file that readConfig rejects
NoConfig == [ok |-> FALSE, nw |-> 0, ns |-> 0]

Configs == {[ok |-> TRUE, nw |-> a, ns |-> b] : a \in 0..MaxSpecs, b \in 0..1}

\* NewGhostDaemon: the daemon holds a WatchManager and a WindowTracker
NewGhostDaemon ==
  /\ m_kind = "watch"
  /\ d_file \in Configs \cup {NoConfig}
  /\ d_main = "new"
  /\ d_watcher = "none"
  /\ d_rpc = "idle"
  /\ d_cfg = NoConfig
  /\ d_loaded = NoConfig
  /\ d_call = 1
  /\ d_event = FALSE
  /\ d_err = "none"

\* the values the daemon variables hold in a specification without a daemon
daemon_Absent ==
  /\ d_file = NoConfig
  /\ d_main = "absent"
  /\ d_watcher = "none"
  /\ d_rpc = "idle"
  /\ d_cfg = NoConfig
  /\ d_loaded = NoConfig
  /\ d_call = 1
  /\ d_event = FALSE
  /\ d_err = "none"

\* the user edits the configuration file; a started config watcher gets an
\* event. The manager reads neither the file nor the events, so an edit
\* made during a call on the manager is taken to be made just before it.
ConfigEdit ==
  /\ d_main \in {"new", "start", "wait", "stop"}
  /\ \A k \in Calls : ~mActive(k)
  /\ d_file' \in (Configs \cup {NoConfig}) \ {d_file}
  /\ d_event' = (d_watcher \in {"select", "timer", "fired", "reload"})
  /\ UNCHANGED <<muvars, wvars, svars, mvars, d_main, d_watcher, d_rpc, d_cfg, d_loaded, d_call, d_err>>

\* Start: os.Stat(d.configPath), then reloadConfig is called
Daemon_Start ==
  /\ d_main = "new"
  /\ \E exists \in BOOLEAN :
       /\ d_file.ok => exists
       /\ IF exists
            THEN d_main' = "start" /\ d_rpc' = "read"
            ELSE d_main' = "exit" /\ d_rpc' = d_rpc
  /\ UNCHANGED <<muvars, wvars, svars, mvars, d_file, d_watcher, d_cfg, d_loaded, d_call, d_event, d_err>>

reloadReturn_refire(err) ==
  /\ d_rpc' = "idle"
  /\ d_cfg' = NoConfig
  /\ d_err' = IF err THEN "err" ELSE "nil"
  /\ IF d_main = "start"
       THEN \E ok \in BOOLEAN :
              /\ d_main' = IF ~err /\ ok THEN "wait" ELSE "exit"
              /\ d_watcher' = IF ~err /\ ok THEN "select" ELSE d_watcher
       ELSE d_main' = d_main /\ d_watcher' = "fired"

\* reloadConfig returns to its caller (cfg is gone): Start goes on to startConfigWatcher
\* (ok is its outcome) or returns the error; runConfigWatcher logs and
\* goes back to its select
reloadReturn(err) ==
  /\ d_rpc' = "idle"
  /\ d_cfg' = NoConfig
  /\ d_err' = IF err THEN "err" ELSE "nil"
  /\ IF d_main = "start"
       THEN \E ok \in BOOLEAN :
              /\ d_main' = IF ~err /\ ok THEN "wait" ELSE "exit"
              /\ d_watcher' = IF ~err /\ ok THEN "select" ELSE d_watcher
       ELSE d_main' = d_main /\ d_watcher' = "select"

Reload_Read_ignoreErr ==
  /\ d_rpc = "read"
  /\ d_cfg' = d_file
  /\ d_rpc' = "tracker"
  /\ UNCHANGED <<d_main, d_watcher, d_err>>
  /\ UNCHANGED <<muvars, wvars, svars, mvars, d_file, d_loaded, d_call, d_event>>

\* reloadConfig: cfg, err := readConfig(d.configPath)
Reload_Read ==
  /\ d_rpc = "read"
  /\ IF d_file.ok
       THEN d_cfg' = d_file /\ d_rpc' = "tracker" /\ UNCHANGED <<d_main, d_watcher, d_err>>
       ELSE reloadReturn(TRUE)
  /\ UNCHANGED <<muvars, wvars, svars, mvars, d_file, d_loaded, d_call, d_event>>

\* reloadConfig: d.windowTracker.Apply(cfg.WindowTracker); ok is its outcome
Reload_Tracker ==
  /\ d_rpc = "tracker"
  /\ \E ok \in BOOLEAN :
       IF ok
         THEN d_rpc' = "apply" /\ UNCHANGED <<d_main, d_watcher, d_cfg, d_err>>
         ELSE reloadReturn(TRUE)
  /\ UNCHANGED <<muvars, wvars, svars, mvars, d_file, d_loaded, d_call, d_event>>

\* reloadConfig: d.manager.Apply(cfg) is called; d.manager is the
\* WatchManager, whose Apply ranges over cfg.Watchers
Reload_Apply ==
  /\ d_rpc = "apply"
  /\ Manager_ApplySwap(d_call, d_cfg.nw)

\* reloadConfig: d.manager.Apply(cfg) has returned, return nil
Reload_Return ==
  /\ d_rpc = "apply"
  /\ m_pc[d_call] = "returned"
  /\ d_loaded' = d_cfg
  /\ d_call' = d_call + 1
  /\ reloadReturn(FALSE)
  /\ UNCHANGED <<muvars, wvars, svars, mvars, d_file, d_event>>

\* runConfigWatcher: an event is received for which shouldReloadForEvent
\* holds; the debounce timer is armed, or stopped (a fire not yet received
\* is drained) and reset
Watcher_Event ==
  /\ d_watcher \in {"select", "timer", "fired"}
  /\ d_event
  /\ d_event' = FALSE
  /\ d_watcher' = "timer"
  /\ UNCHANGED <<muvars, wvars, svars, mvars, d_file, d_main, d_rpc, d_cfg, d_loaded, d_call, d_err>>

\* the debounce time elapses since the timer was armed or reset
Watcher_TimerFire ==
  /\ d_watcher = "timer"
  /\ d_watcher' = "fired"
  /\ UNCHANGED <<muvars, wvars, svars, mvars, d_file, d_main, d_rpc, d_cfg, d_loaded, d_call, d_event, d_err>>

\* runConfigWatcher, case <-timerCh: reloadConfig is called
Watcher_Timer ==
  /\ d_watcher = "fired"
  /\ d_call <= MaxCalls
  /\ d_watcher' = "reload"
  /\ d_rpc' = "read"
  /\ UNCHANGED <<muvars, wvars, svars, mvars, d_file, d_main, d_cfg, d_loaded, d_call, d_event, d_err>>

\* main: a signal arrives; Stop closes d.watcher
Daemon_Signal ==
  /\ d_main = "wait"
  /\ d_main' = "stop"
  /\ UNCHANGED <<muvars, wvars, svars, mvars, d_file, d_watcher, d_rpc, d_cfg, d_loaded, d_call, d_event, d_err>>

\* runConfigWatcher: d.watcher.Events is closed, the task returns and
\* closes watcherDone
Watcher_Closed ==
  /\ d_main = "stop"
  /\ d_watcher \in {"select", "timer", "fired"}
  /\ d_watcher' = "done"
  /\ UNCHANGED <<muvars, wvars, svars, mvars, d_file, d_main, d_rpc, d_cfg, d_loaded, d_call, d_event, d_err>>

Stop_WatcherDone_noWait ==
  /\ d_main = "stop"
  /\ d_call <= MaxCalls
  /\ d_main' = "stopall"
  /\ UNCHANGED <<muvars, wvars, svars, mvars, d_file, d_watcher, d_rpc, d_cfg, d_loaded, d_call, d_event, d_err>>

\* Stop: <-d.watcherDone
Stop_WatcherDone ==
  /\ d_main = "stop"
  /\ d_watcher = "done"
  /\ d_call <= MaxCalls
  /\ d_main' = "stopall"
  /\ UNCHANGED <<muvars, wvars, svars, mvars, d_file, d_watcher, d_rpc, d_cfg, d_loaded, d_call, d_event, d_err>>

\* Stop: d.manager.StopAll() is called
Stop_StopAll ==
  /\ d_main = "stopall"
  /\ Manager_StopAllSwap(d_call)

\* Stop: d.manager.StopAll() has returned
Stop_Return ==
  /\ d_main = "stopall"
  /\ m_pc[d_call] = "returned"
  /\ d_main' = "stopped"
  /\ d_call' = d_call + 1
  /\ UNCHANGED <<muvars, wvars, svars, mvars, d_file, d_watcher, d_rpc, d_cfg, d_loaded, d_event, d_err>>

daemon_Next ==
  \/ ConfigEdit
  \/ Daemon_Start
  \/ Reload_Read
  \/ Reload_Tracker
  \/ Reload_Apply
  \/ Reload_Return
  \/ Watcher_Event
  \/ Watcher_TimerFire
  \/ Watcher_Timer
  \/ Daemon_Signal
  \/ Watcher_Closed
  \/ Stop_WatcherDone
  \/ Stop_StopAll
  \/ Stop_Return
  \/ \E k \in Calls : Manager_CloseJob(k)
  \/ \E j \in JobIds : Manager_JobDone(j)
  \/ \E k \in Calls : Manager_CloseReturned(k)
  \/ \E k \in Calls : Manager_CloseLoopEnd(k)
  \/ \E k \in Calls : Manager_NewJob(k)
  \/ \E k \in Calls : Manager_ApplyStore(k)

\* =============================================================== job mutex
\* The operations of each task on j.mu and its blocking waits, in program
\* order. An operation is Op(kind, argument, next positions):
\*   lock, unlock   j.mu.Lock(), j.mu.Unlock()
\*   sel            a blocking receive, select or Wait: a set of <<condition,
\*                  next position>>, taken once one of the conditions holds
\*   if             <<condition, position if it holds, position otherwise>>
\*   sig            close of a channel / release of a wait group
\*   go             start of a task of the given family
\*   end            the task returns
\* Where the code branches on data this level leaves out, the operation
\* before the branch has every target as a next position.
Op(o, a, n) == [op |-> o, a |-> a, nxt |-> n]

NoTask == <<"none", 0>>

Tasks ==
  {<<"run", 1>>, <<"start", 1>>}
    \cup ({"exit"} \X Pids) \cup ({"kill"} \X Timers)
    \cup ({"close"} \X Closers) \cup ({"copy"} \X SPids)

\* conditions that hold whenever the environment makes them hold: a
\* notification is delivered, a timer elapses, a process or its output ends
EnvConds == {"events", "debounce", "killTimeout", "procExit", "delay", "streamEnd"}

\* watchJob.scheduleTriggers from j.mu.Lock() (at position b) to the deferred
\* unlock: nothing, or stopProcessLocked (a kill timer), or launchLocked
\* (go j.waitForExit); the caller continues at position after
scheduleOps(b, after) ==
  << Op("lock", {}, {b + 1, b + 2, b + 3}),
     Op("go", {"kill"}, {b + 3}),
     Op("go", {"exit"}, {b + 3}),
     Op("unlock", {}, {after}) >>

\* watchJob.run
watchRunOps ==
  << Op("sel", {<<"stopCh", 6>>, <<"events", 1>>, <<"events", 6>>,
                <<"debounce", 1>>, <<"debounce", 2>>}, {}) >>
  \o scheduleOps(2, 1)
  \o << Op("sig", {"doneCh"}, {7}),
        Op("end", {}, {}) >>

\* go job.scheduleTriggers(startup)
watchStartOps == scheduleOps(1, 5) \o << Op("end", {}, {}) >>

\* watchJob.waitForExit
watchExitOps ==
  << Op("sel", {<<"procExit", 2>>}, {}),
     Op("lock", {}, {3}),
     Op("unlock", {}, {4, 8}) >>
  \o scheduleOps(4, 8)
  \o << Op("end", {}, {}) >>

\* the AfterFunc callback of stopProcessLocked (both job kinds)
killOps ==
  << Op("sel", {<<"killTimeout", 2>>}, {}),
     Op("lock", {}, {3}),
     Op("unlock", {}, {4}),
     Op("end", {}, {}) >>

closeOps_waitLocked ==
  << Op("lock", {}, {2}),
     Op("if", {<<"stopCh", 3, 5>>}, {}),
     Op("unlock", {}, {4}),
     Op("sel", {<<"doneCh", 9>>}, {}),
     Op("sig", {"stopCh"}, {6, 7}),
     Op("go", {"kill"}, {7}),
     Op("sel", {<<"doneCh", 8>>}, {}),
     Op("unlock", {}, {9}),
     Op("end", {}, {}) >>

\* watchJob.Close and serverJob.Close
closeOps ==
  << Op("lock", {}, {2}),
     Op("if", {<<"stopCh", 3, 5>>}, {}),
     Op("unlock", {}, {4}),
     Op("sel", {<<"doneCh", 9>>}, {}),
     Op("sig", {"stopCh"}, {6, 7}),
     Op("go", {"kill"}, {7}),
     Op("unlock", {}, {8}),
     Op("sel", {<<"doneCh", 9>>}, {}),
     Op("end", {}, {}) >>

\* serverJob.run with launchOnce and waitForRestart
serverRunOps ==
  << Op("lock", {}, {2}),                       \* launchOnce: isClosed()
     Op("unlock", {}, {3, 12, 14}),             \* go on; log or spawn error; closed
     Op("lock", {}, {4}),                       \* setProcess
     Op("unlock", {}, {5}),
     Op("go", {"copy"}, {6}),
     Op("sel", {<<"procExit", 7>>}, {}),        \* cmd.Wait()
     Op("sel", {<<"copyDone", 8>>}, {}),        \* wg.Wait()
     Op("lock", {}, {9}),                       \* clearProcess
     Op("unlock", {}, {10, 14}),
     Op("lock", {}, {11}),                      \* waitErr != nil && !j.isClosed()
     Op("unlock", {}, {12}),
     Op("lock", {}, {13}),                      \* run: err != nil && !j.isClosed()
     Op("unlock", {}, {14}),
     Op("lock", {}, {15}),                      \* run: j.isClosed() || !j.cfg.Restart
     Op("unlock", {}, {16, 19}),
     Op("sel", {<<"delay", 17>>, <<"stopCh", 19>>}, {}),   \* waitForRestart
     Op("lock", {}, {18}),                      \* return !j.isClosed()
     Op("unlock", {}, {1, 19}),
     Op("sig", {"doneCh"}, {20}),
     Op("end", {}, {}) >>

\* an output copy task of launchOnce
serverCopyOps ==
  << Op("sel", {<<"streamEnd", 2>>, <<"streamEnd", 4>>}, {}),
     Op("lock", {}, {3}),                       \* !j.isClosed()
     Op("unlock", {}, {4}),
     Op("sig", {"copyDone"}, {5}),
     Op("end", {}, {}) >>

\* the operations of task t in a job of the kind at hand
taskOps(t) ==
  CASE t[1] = "run" -> (IF mu_kind = "watch" THEN watchRunOps ELSE serverRunOps)
    [] t[1] = "start" -> watchStartOps
    [] t[1] = "exit" -> watchExitOps
    [] t[1] = "kill" -> killOps
    [] t[1] = "close" -> closeOps
    [] t[1] = "copy" -> serverCopyOps

\* the next operation of a started task
nextOp(t) == taskOps(t)[mu_pc[t]]

muStarted(t) == mu_pc[t] > 0

muHolds(c) == c \in EnvConds \/ c \in mu_sig

mutex_Init ==
  /\ mu_kind \in {"watch", "server"}
  /\ mu_holder = NoTask
  /\ mu_sig = {}
  /\ \E runOnStart \in BOOLEAN :
       mu_pc = [t \in Tasks |->
                  IF t[1] \in {"run", "close"} THEN 1
                  ELSE IF t[1] = "start" /\ mu_kind = "watch" /\ runOnStart THEN 1
                  ELSE 0]

\* the values the mutex variables hold in a specification at the level of
\* whole locked sections
mutex_Absent ==
  /\ mu_kind = "none"
  /\ mu_holder = NoTask
  /\ mu_sig = {}
  /\ mu_pc = [t \in Tasks |-> 0]

\* j.mu.Lock(): blocks until the mutex is free
Mutex_Lock(t) ==
  /\ muStarted(t)
  /\ nextOp(t).op = "lock"
  /\ mu_holder = NoTask
  /\ mu_holder' = t
  /\ \E to \in nextOp(t).nxt : mu_pc' = [mu_pc EXCEPT ![t] = to]
  /\ UNCHANGED <<dvars, wvars, svars, mvars, mu_kind, mu_sig>>

\* j.mu.Unlock()
Mutex_Unlock(t) ==
  /\ muStarted(t)
  /\ nextOp(t).op = "unlock"
  /\ mu_holder = t
  /\ mu_holder' = NoTask
  /\ \E to \in nextOp(t).nxt : mu_pc' = [mu_pc EXCEPT ![t] = to]
  /\ UNCHANGED <<dvars, wvars, svars, mvars, mu_kind, mu_sig>>

\* a blocking receive, select or Wait returns
Task_Select(t) ==
  /\ muStarted(t)
  /\ nextOp(t).op = "sel"
  /\ \E b \in nextOp(t).a :
       /\ muHolds(b[1])
       /\ mu_pc' = [mu_pc EXCEPT ![t] = b[2]]
  /\ UNCHANGED <<dvars, wvars, svars, mvars, mu_kind, mu_holder, mu_sig>>

\* a test of j.closed
Task_If(t) ==
  /\ muStarted(t)
  /\ nextOp(t).op = "if"
  /\ \E b \in nextOp(t).a :
       mu_pc' = [mu_pc EXCEPT ![t] = IF muHolds(b[1]) THEN b[2] ELSE b[3]]
  /\ UNCHANGED <<dvars, wvars, svars, mvars, mu_kind, mu_holder, mu_sig>>

\* close(ch) / wg.Done()
Task_Signal(t) ==
  /\ muStarted(t)
  /\ nextOp(t).op = "sig"
  /\ mu_sig' = mu_sig \cup nextOp(t).a
  /\ \E to \in nextOp(t).nxt : mu_pc' = [mu_pc EXCEPT ![t] = to]
  /\ UNCHANGED <<dvars, wvars, svars, mvars, mu_kind, mu_holder>>

\* go f(...) / time.AfterFunc: the first task of the family that is not
\* started yet starts; once all of them are started nothing more is started
Task_Go(t) ==
  /\ muStarted(t)
  /\ nextOp(t).op = "go"
  /\ LET free == {u \in Tasks : u[1] \in nextOp(t).a /\ mu_pc[u] = 0} IN
     \E to \in nextOp(t).nxt :
       IF free = {}
         THEN mu_pc' = [mu_pc EXCEPT ![t] = to]
         ELSE LET u == CHOOSE u \in free : \A v \in free : u[2] <= v[2] IN
              mu_pc' = [mu_pc EXCEPT ![t] = to, ![u] = 1]
  /\ UNCHANGED <<dvars, wvars, svars, mvars, mu_kind, mu_holder, mu_sig>>

mutex_Next ==
  \/ \E t \in Tasks : Mutex_Lock(t)
  \/ \E t \in Tasks : Mutex_Unlock(t)
  \/ \E t \in Tasks : Task_Select(t)
  \/ \E t \in Tasks : Task_If(t)
  \/ \E t \in Tasks : Task_Signal(t)
  \/ \E t \in Tasks : Task_Go(t)

\* ========================================================== specifications

\* one watch job from newWatchJob on
InitWatch == watchJob_Init /\ serverJob_Absent /\ manager_Absent /\ mutex_Absent /\ daemon_Absent

SpecWatch == InitWatch /\ [][watchJob_Next]_vars

\* one call of newWatchJob and, if it returns a job, that job
InitWatchNew == watchJob_New /\ serverJob_Absent /\ manager_Absent /\ mutex_Absent /\ daemon_Absent

NextWatchNew == (\E ok \in BOOLEAN : newWatchJob(ok)) \/ watchJob_Next

SpecWatchNew == InitWatchNew /\ [][NextWatchNew]_vars

\* one server job from newServerJob on
InitServer == serverJob_Init /\ watchJob_Absent /\ manager_Absent /\ mutex_Absent /\ daemon_Absent

SpecServer == InitServer /\ [][serverJob_Next]_vars

\* one call of newServerJob and the job it returns
InitServerNew == serverJob_New /\ watchJob_Absent /\ manager_Absent /\ mutex_Absent /\ daemon_Absent

NextServerNew == newServerJob \/ serverJob_Next

SpecServerNew == InitServerNew /\ [][NextServerNew]_vars

\* one server job under the scheduling the runtime guarantees: every task
\* that can take a step eventually takes it, an armed timer eventually
\* elapses, and a process that was sent SIGKILL exits. A process that was
\* not killed may run forever.
serverJob_Fairness ==
  /\ WF_vars(LaunchCheck)
  /\ WF_vars(LaunchOpenLog)
  /\ WF_vars(LaunchSpawn)
  /\ WF_vars(LaunchSetProcess)
  /\ WF_vars(LaunchWait)
  /\ WF_vars(LaunchWgWait)
  /\ WF_vars(LaunchClearProcess)
  /\ WF_vars(RunAfterLaunch)
  /\ WF_vars(RestartDelayElapsed)
  /\ WF_vars(RestartDelayCheck)
  /\ WF_vars(SKillTimerFire)
  /\ WF_vars(SKillTimerCallback)
  /\ \A p \in SPids : WF_vars(CopyDone(p))
  /\ \A p \in SPids : WF_vars(s_kills[p] > 0 /\ SProcExit(p))
  /\ \A c \in Closers : WF_vars(serverJob_CloseReturn(c))

SpecServerFair == SpecServer /\ serverJob_Fairness

\* one manager whose callers make one call at a time, as the daemon does:
\* reloadConfig holds reloadMu around Apply, and Stop calls StopAll once
\* the config watcher task has exited
InitManager == manager_Init /\ watchJob_Absent /\ serverJob_Absent /\ mutex_Absent /\ daemon_Absent

SpecManager == InitManager /\ [][manager_Next]_vars

\* one watch job under the scheduling the runtime guarantees for its run
\* loop: a select case that stays ready is eventually taken, and an armed
\* debounce timer eventually elapses
watchJob_Fairness ==
  /\ WF_vars(RunEvent)
  /\ WF_vars(DebounceElapse)
  /\ WF_vars(RunDebounce)
  /\ WF_vars(RunSchedule)

SpecWatchFair == SpecWatch /\ watchJob_Fairness

\* ... and every other task of the job that can take a step eventually
\* takes it: the run-on-start task and the exit handlers. A process may run
\* forever, a notification or a Close need never come.
watchJob_TaskFairness ==
  /\ WF_vars(StartTask)
  /\ \A p \in Pids : WF_vars(ExitCapture(p))
  /\ \A p \in Pids : WF_vars(ExitReschedule(p))

SpecWatchLive == SpecWatchFair /\ watchJob_TaskFairness

\* the tasks of one job of either kind at the level of single mutex
\* operations
InitMutex == mutex_Init /\ watchJob_Absent /\ serverJob_Absent /\ manager_Absent /\ daemon_Absent

SpecMutex == InitMutex /\ [][mutex_Next]_vars

\* one job of either kind, from its constructor on
\* the daemon with its manager, from NewGhostDaemon to the return of Stop
InitDaemon ==
  manager_Init /\ NewGhostDaemon /\ watchJob_Absent /\ serverJob_Absent /\ mutex_Absent

SpecDaemon == InitDaemon /\ [][daemon_Next]_vars

\* one watch job whose event source also delivers PathNotifications
NextWatchPaths ==
  \/ StartTask
  \/ RunStop
  \/ \E info \in PathNotifications : RunReceive(info)
  \/ RunEvent
  \/ DebounceElapse
  \/ RunDebounce
  \/ RunSchedule
  \/ \E p \in Pids : ProcExit(p)
  \/ \E p \in Pids : ExitCapture(p)
  \/ \E p \in Pids : ExitReschedule(p)
  \/ \E t \in Timers : KillTimerFire(t)
  \/ \E t \in Timers : KillTimerCallback(t)
  \/ \E c \in Closers : watchJob_Close(c)
  \/ \E c \in Closers : watchJob_CloseReturn(c)

SpecWatchPaths == InitWatch /\ [][NextWatchPaths]_vars

\* one watch job whose event source may close the event channel
NextWatchEvents ==
  \/ StartTask
  \/ RunStop
  \/ EventsClose
  \/ RunEventsClosed
  \/ \E info \in Notifications : RunReceive(info)
  \/ RunEvent
  \/ DebounceElapse
  \/ RunDebounce
  \/ RunSchedule
  \/ \E p \in Pids : ProcExit(p)
  \/ \E p \in Pids : ExitCapture(p)
  \/ \E p \in Pids : ExitReschedule(p)
  \/ \E t \in Timers : KillTimerFire(t)
  \/ \E t \in Timers : KillTimerCallback(t)
  \/ \E c \in Closers : watchJob_Close(c)
  \/ \E c \in Closers : watchJob_CloseReturn(c)

\* ... under the scheduling of the run loop: a closed channel is always
\* ready to receive from, so its select case is eventually taken
SpecWatchEvents ==
  /\ InitWatch /\ [][NextWatchEvents]_vars
  /\ watchJob_Fairness
  /\ WF_vars(RunEventsClosed)

\* ... under the scheduling the runtime guarantees: every task of the
\* daemon and of its manager that can take a step eventually takes it, an
\* armed debounce timer elapses, and the watcher's select, which chooses at
\* random among its ready cases, does not pass over a ready fire for ever.
\* Edits and signals need never come.
daemon_Fairness ==
  /\ WF_vars(Reload_Read)
  /\ WF_vars(Reload_Tracker)
  /\ WF_vars(Reload_Apply)
  /\ WF_vars(Reload_Return)
  /\ WF_vars(Watcher_Event)
  /\ WF_vars(Watcher_TimerFire)
  /\ SF_vars(Watcher_Timer)
  /\ WF_vars(Watcher_Closed)
  /\ WF_vars(Stop_WatcherDone)
  /\ WF_vars(Stop_StopAll)
  /\ WF_vars(Stop_Return)
  /\ \A k \in Calls : WF_vars(Manager_CloseJob(k))
  /\ \A j \in JobIds : WF_vars(Manager_JobDone(j))
  /\ \A k \in Calls : WF_vars(Manager_CloseReturned(k))
  /\ \A k \in Calls : WF_vars(Manager_CloseLoopEnd(k))
  /\ \A k \in Calls : WF_vars(Manager_NewJob(k))
  /\ \A k \in Calls : WF_vars(Manager_ApplyStore(k))

SpecDaemonFair == SpecDaemon /\ daemon_Fairness

\* one manager under concurrent calls of Apply and StopAll
InitManagerConcurrent ==
  manager_InitConcurrent /\ watchJob_Absent /\ serverJob_Absent /\ mutex_Absent /\ daemon_Absent

SpecManagerConcurrent == InitManagerConcurrent /\ [][manager_Next]_vars

InitJob == InitWatch \/ InitServer

NextJob == watchJob_Next \/ serverJob_Next

SpecJob == InitJob /\ [][NextJob]_vars

\* a Close caller that can return (doneCh is closed) eventually does
Close_Fairness ==
  /\ \A c \in Closers : WF_vars(watchJob_CloseReturn(c))
  /\ \A c \in Closers : WF_vars(serverJob_CloseReturn(c))

SpecJobFair == SpecJob /\ Close_Fairness

\* one job of either kind whose kill timers run: an armed timer
\* eventually elapses and its callback eventually gets the mutex
KillTimer_Fairness ==
  /\ \A t \in Timers : WF_vars(KillTimerFire(t))
  /\ \A t \in Timers : WF_vars(KillTimerCallback(t))
  /\ WF_vars(SKillTimerFire)
  /\ WF_vars(SKillTimerCallback)

SpecJobKillFair == SpecJob /\ KillTimer_Fairness

\* ================================================================== claims
Range(seq) == {seq[i] : i \in 1..Len(seq)}

wTerms(p) == w_term[p].sched + w_term[p].close

wReturned == \E c \in Closers : w_cpc[c] = "returned"

sReturned == \E c \in Closers : s_cpc[c] = "returned"

\* C1: a watch job never has more than one process that was spawned and is
\* not yet reaped, in any interleaving of its tasks.
WatchAtMostOneProcess == Cardinality(wLive) <= 1

\* a relaunch: the first process was reaped and the second one is running
WatchRelaunched ==
  /\ w_nlaunch = 2
  /\ w_pstate[1] = "reaped"
  /\ w_pstate[2] = "running"

\* C2: once the server job's closed flag is set, no process is spawned.
ServerNoSpawnAfterClose == [][s_closed => s_nspawn' = s_nspawn]_vars

\* C3: once the watch job's closed flag is set, launchLocked is never called.
WatchNoLaunchAfterClose == [][w_closed => w_nlaunch' = w_nlaunch]_vars

\* the run-on-start task ran after Close and launched nothing
WatchStartTaskAfterClose ==
  /\ w_closed
  /\ w_runOnStart
  /\ w_startpc = "done"
  /\ w_nlaunch = 0

\* C4: the watch job's closed flag is never cleared, and while it is set
\* both queues are empty and restartQueued is false.
WatchClosedDiscardsQueues ==
  /\ [][w_closed => w_closed']_vars
  /\ [](w_closed => /\ w_pending = <<>>
                    /\ w_pendingRestart = <<>>
                    /\ ~w_restartQueued)

\* a process that had triggers queued behind it was live when Close ran and
\* its exit handler has run since
WatchExitAfterClose ==
  /\ w_nlaunch \in w_atClose
  /\ w_queued # <<>>
  /\ w_pstate[w_nlaunch] = "reaped"
  /\ w_hpc[w_nlaunch] = "done"

\* a step that spawns a process after a run that had triggers queued
wRelaunchWithQueue ==
  /\ w_nlaunch' = w_nlaunch + 1
  /\ w_pstate'[w_nlaunch'] = "running"
  /\ w_queued # <<>>

\* C5: restart mode: the batches scheduled while a process runs send it
\* exactly one SIGTERM from the scheduler, and the process launched next
\* carries exactly the union of those batches.
WatchRestartCoalesces ==
  /\ [](w_restart /\ w_nlaunch >= 1 /\ w_queued # <<>> => w_term[w_nlaunch].sched = 1)
  /\ [][w_restart /\ wRelaunchWithQueue => Range(w_trig') = Range(w_queued)]_vars

\* C6: non-restart mode: scheduling while a process runs sends it no signal
\* and launches no second process, and the process launched next carries
\* exactly the triggers queued during its run.
WatchQueueRunsNext ==
  /\ [](~w_restart => /\ Cardinality(wLive) <= 1
                      /\ \A p \in Pids : w_term[p].sched = 0)
  /\ [][~w_restart /\ wRelaunchWithQueue => Range(w_trig') = Range(w_queued)]_vars

\* C7: once a Close call on a watch job has returned, the job's process is
\* reaped and the job holds no process handle.
WatchCloseWaitsForProcess ==
  wReturned => wLive = {} /\ w_cmd = 0 /\ ~w_running

\* C8: once a Close call on a server job has returned, the job's process
\* has exited and was cleared, and no pty is open.
ServerCloseWaitsForProcess ==
  sReturned =>
    /\ sLive = {}
    /\ s_cmd = 0
    /\ s_pty = 0
    /\ \A p \in SPids : ~s_ptyOpen[p] /\ s_copies[p] = 0

\* every caller has returned from closing a job whose process was signalled
ServerClosedRunningJob ==
  /\ \A c \in Closers : s_cpc[c] = "returned"
  /\ \E p \in SPids : s_term[p] > 0 /\ s_pstate[p] = "reaped"

\* C9: every call of Close on a server job returns.
ServerCloseReturns ==
  \A c \in Closers : (s_cpc[c] = "wait") ~> (s_cpc[c] = "returned")

\* C10: once a Close call on a watch job has returned, every process that
\* was live when closed was set has been sent SIGTERM, doneCh is closed, the
\* run loop is over and the event subscription is stopped.
WatchCloseSynchronous ==
  wReturned =>
    /\ w_doneCh
    /\ w_rpc = "done"
    /\ ~w_subscribed
    /\ \A p \in w_atClose : wTerms(p) >= 1

\* Close has returned while the process it signalled is still running
WatchCloseReturnedProcessRunning ==
  /\ wReturned
  /\ \E p \in w_atClose : w_pstate[p] = "running" /\ w_term[p].close = 1

\* C11: under any number of Close calls on a job of either kind the stop
\* channel is closed once and the termination step runs once, no caller
\* returns before the run loop has exited, and every caller returns once
\* it has.
DoubleCloseSafe ==
  /\ [](/\ w_stops <= 1
        /\ s_stops <= 1
        /\ \A p \in Pids : w_term[p].close <= 1
        /\ \A p \in SPids : s_term[p] <= 1
        /\ wReturned => w_rpc = "done" /\ w_doneCh
        /\ sReturned => s_rpc = "done" /\ s_doneCh)
  /\ \A c \in Closers : (w_cpc[c] = "wait" /\ w_doneCh) ~> (w_cpc[c] = "returned")
  /\ \A c \in Closers : (s_cpc[c] = "wait" /\ s_doneCh) ~> (s_cpc[c] = "returned")

\* every caller has returned from a watch job whose process was live at the
\* first Close
WatchDoubleClosed ==
  /\ \A c \in Closers : w_cpc[c] = "returned"
  /\ w_stops = 1
  /\ \E p \in w_atClose : w_term[p].close = 1

\* C12: a kill timer's callback sends SIGKILL only to the process it was
\* armed for and only while that process is the job's current handle: not
\* once the exit path has cleared the handle, and not to a later process.
KillOnlyCurrentProcess ==
  [][/\ \A p \in Pids :
          w_kills'[p] # w_kills[p] =>
            /\ w_kills'[p] = w_kills[p] + 1
            /\ w_cmd = p
            /\ \E t \in Timers :
                 w_tstate[t] = "firing" /\ w_tstate'[t] = "done" /\ w_tproc[t] = p
     /\ \A p \in SPids :
          s_kills'[p] # s_kills[p] =>
            /\ s_kills'[p] = s_kills[p] + 1
            /\ s_cmd = p
            /\ s_tstate = "firing" /\ s_tstate' = "done" /\ s_tproc = p]_vars

\* the callback of the timer armed for the first process ran after the
\* second process was launched, and killed neither
StaleKillTimerSkipped ==
  /\ \E t \in Timers : w_tstate[t] = "done" /\ w_tproc[t] = 1
  /\ w_cmd = 2
  /\ w_kills = [p \in Pids |-> 0]

\* the run loop is between the spawn of a process and the next launchOnce
sAwaitingRelaunch == s_rpc \in {"setproc", "wait", "wgwait", "clear", "after", "delay", "delaychk"}

\* C13: a restarting server job calls launchOnce again only from the
\* elapsed restart delay and only while not closed, never supervises two
\* processes, and does relaunch after an exit unless it is closed; a Close
\* before the exit or during the delay ends the wait without a relaunch.
ServerRelaunchAfterDelay ==
  /\ [][s_rpc' = "launch" /\ s_rpc # "launch" =>
          s_rpc = "delaychk" /\ s_restart /\ ~s_closed]_vars
  /\ [][s_rpc' = "delaychk" /\ s_rpc # "delaychk" => s_rpc = "delay"]_vars
  /\ [][s_closed /\ sAwaitingRelaunch => s_rpc' # "launch" /\ s_nspawn' = s_nspawn]_vars
  /\ [](Cardinality(sLive) <= 1)
  /\ (s_restart /\ s_rpc = "after") ~> (s_rpc = "launch" \/ s_closed)
  /\ (s_closed /\ s_rpc \in {"after", "delay", "delaychk"}) ~> (s_rpc = "done")

\* the first process was reaped and, the job not being closed, a second one
\* was launched
ServerRelaunched ==
  /\ s_restart
  /\ ~s_closed
  /\ s_pstate[1] = "reaped"
  /\ s_pstate[2] = "running"

RECURSIVE windowTriggers(_)
\* the Triggers mapped from a sequence of notifications, in arrival order
windowTriggers(infos) ==
  IF infos = <<>> THEN <<>>
  ELSE triggersForEvent(Head(infos)) \o windowTriggers(Tail(infos))

RECURSIVE firstSeen(_)
\* a sequence without the elements that occurred earlier in it
firstSeen(seq) ==
  IF seq = <<>> THEN <<>>
  ELSE LET init == SubSeq(seq, 1, Len(seq) - 1)
           last == seq[Len(seq)]
       IN IF last \in Range(init) THEN firstSeen(init) ELSE Append(firstSeen(init), last)

\* the run loop's step out of handleTriggers
wHandled == w_rpc = "sched" /\ w_rpc' = "select"

\* C14: the admitted notifications buffered when the debounce timer fires
\* lead to one scheduleTriggers call, made only on that fire, whose
\* argument is the first-seen-order, duplicate-free union of their Triggers;
\* afterwards the buffer is empty and no timer is pending.
DebounceOneDecision ==
  /\ [](w_rpc = "sched" =>
          /\ w_window # <<>>
          /\ dedupeTriggers(w_rpending) = firstSeen(windowTriggers(w_window)))
  /\ [][w_rpc' = "sched" /\ w_rpc # "sched" => w_dtimer = "fired"]_vars
  /\ [][wHandled => w_window' = <<>> /\ w_rpending' = <<>> /\ w_dtimer' = "nil"]_vars
  /\ [][wHandled /\ ~w_closed /\ w_running =>
          w_queued' = w_queued \o firstSeen(windowTriggers(w_window))]_vars
  /\ [][wHandled /\ ~w_closed /\ ~w_running /\ w_cmd' # 0 =>
          w_trig' = (IF w_restart THEN w_pendingRestart ELSE <<>>)
                      \o firstSeen(windowTriggers(w_window))]_vars

\* two notifications of the same change were buffered in one window and
\* the timer has fired
WatchDuplicatesInWindow ==
  /\ w_rpc = "sched"
  /\ Len(w_window) = 2
  /\ w_window[1] = w_window[2]

\* C15: a launch carries the triggers that were handed to the scheduler
\* before it and have not been launched yet, ahead of any newer trigger: no
\* later batch is launched before an earlier one, in any interleaving of
\* the run loop with the exit handler.
WatchFirstSeenOrder ==
  [][wRelaunchWithQueue =>
       /\ Len(w_queued) <= Len(w_trig')
       /\ SubSeq(w_trig', 1, Len(w_queued)) = w_queued]_vars

\* the root-relative path leaves the watch root: ".." or "../..."
wOutsideRoot(rel) ==
  \/ rel = <<".", ".">>
  \/ Len(rel) >= 3 /\ SubSeq(rel, 1, 3) = <<".", ".", "/">>

\* a notification the job must not act on
wRejected(info) ==
  \/ wOutsideRoot(info.Rel)
  \/ Len(CfgMatchers) > 0 /\ \A i \in 1..Len(CfgMatchers) : ~globMatch(CfgMatchers[i], info.Rel)
  \/ Range(mapNotifyEvents(info.Event)) \cap CfgEvents = {}

\* a Trigger that admission may produce
wAdmissible(t) ==
  /\ t.Event \in CfgEvents
  /\ ~wOutsideRoot(t.Path)
  /\ \E i \in 1..Len(CfgMatchers) : globMatch(CfgMatchers[i], t.Path)

\* C16: handling a notification whose path is outside the watch root, or
\* fails every matcher, or maps to no allowed event kind appends nothing to
\* the debounce buffer and leaves the timer as it is, and no Trigger that
\* is buffered or handed to the scheduler comes from such a notification.
WatchAdmissionSound ==
  /\ [][w_rpc = "event" /\ w_rpc' # "event" /\ wRejected(w_info) =>
          /\ w_rpc' = "select"
          /\ w_rpending' = w_rpending
          /\ w_window' = w_window
          /\ w_dtimer' = w_dtimer]_vars
  /\ [](\A t \in Range(w_rpending) : wAdmissible(t))
  /\ [](\A t \in Range(w_queued) \cup Range(w_trig) : t.Path # NoPath => wAdmissible(t))

\* the only notification received so far was handled and left no trace
WatchNotificationRejected ==
  /\ w_nevents = 1
  /\ w_rpc = "select"
  /\ w_rpending = <<>>
  /\ w_dtimer = "nil"
  /\ w_nlaunch = 0
  /\ ~w_runOnStart
  /\ ~w_closed

\* C17: the debounce timer fires only from being armed, a non-empty buffer
\* always has a fire pending (armed, or fired and not yet received), the
\* buffer only grows until it is handed to the scheduler whole or the job
\* is closed, and unless the job is closed it is handed over eventually.
DebounceNoLostFire ==
  /\ [][w_dtimer' = "fired" /\ w_dtimer # "fired" => w_dtimer = "armed"]_vars
  /\ [](w_rpc \in {"select", "event"} /\ w_rpending # <<>> => w_dtimer \in {"armed", "fired"})
  /\ [](w_rpc = "sched" => w_rpending # <<>> /\ w_dtimer = "nil")
  /\ [][w_window # <<>> /\ w_window' # w_window =>
          \/ w_rpc = "event" /\ SubSeq(w_window', 1, Len(w_window)) = w_window
          \/ wHandled /\ w_window' = <<>>
          \/ w_closed /\ w_window' = <<>>]_vars
  /\ (w_window # <<>>) ~> (w_rpc = "sched" \/ w_closed)

\* an admitted notification is being handled while the fire of the timer
\* armed by an earlier one has not been received
WatchRearmOverFire ==
  /\ w_rpc = "event"
  /\ ~wRejected(w_info)
  /\ w_dtimer = "fired"
  /\ w_rpending # <<>>

\* call k returns in this step
mReturns(k) == m_pc[k] # "returned" /\ m_pc'[k] = "returned"

\* the jobs call k constructed without an error from its specs 1..i, in
\* spec order
RECURSIVE constructedUpTo(_, _)
constructedUpTo(k, i) ==
  IF i = 0 THEN <<>>
  ELSE IF m_job[<<k, i>>] = "failed" THEN constructedUpTo(k, i - 1)
       ELSE Append(constructedUpTo(k, i - 1), <<k, i>>)

\* C18: with the calls on a manager made one at a time, whenever a job of
\* one Apply call has been constructed every job constructed by an earlier
\* call has completed Close (its constructor failed, or it is closed), no
\* call that has jobs left to close constructs anything, and in the step in
\* which an Apply returns the collection becomes exactly the jobs it
\* constructed without an error from its specs, in spec order.
ManagerApplyGenerations ==
  /\ [](\A k \in Calls : \A d \in Calls :
         d < k /\ (\E i \in SpecIdx : m_job[<<k, i>>] # "none")
           => \A i \in SpecIdx : m_job[<<d, i>>] \in {"none", "failed", "closed"})
  /\ [](\A k \in Calls :
         m_pc[k] = "build" => \A j \in Range(m_old[k]) : m_job[j] = "closed")
  /\ [][\A k \in Calls :
         m_op[k] = "Apply" /\ mReturns(k)
           => /\ m_jobs' = constructedUpTo(k, m_n[k])
              /\ \A i \in 1..m_n[k] : m_job[<<k, i>>] # "none"]_vars

\* a second Apply has returned: the job of the first one is closed and the
\* collection holds the two jobs of the second, in spec order
ManagerGenerationReplaced ==
  /\ m_op[1] = "Apply" /\ m_op[2] = "Apply" /\ m_pc[2] = "returned"
  /\ m_job[<<1, 1>>] = "closed"
  /\ m_jobs = << <<2, 1>>, <<2, 2>> >>

\* C19: in the step in which StopAll returns, every job that was in the
\* collection when StopAll was called has completed Close, and the
\* collection is empty; and while StopAll runs it has emptied the collection.
ManagerStopAllEmpties ==
  /\ [][\A k \in Calls :
         m_op[k] = "StopAll" /\ mReturns(k)
           => /\ \A j \in Range(m_old[k]) : m_job[j] = "closed"
              /\ m_jobs' = <<>>]_vars
  /\ [][\A k \in Calls :
         m_pc[k] = "idle" /\ m_op'[k] = "StopAll"
           => m_old'[k] = m_jobs /\ m_jobs' = <<>>]_vars

\* StopAll has returned after closing the two jobs an Apply had stored
ManagerStoppedAll ==
  /\ m_op[1] = "Apply" /\ m_op[2] = "StopAll" /\ m_pc[2] = "returned"
  /\ m_old[2] = << <<1, 1>>, <<1, 2>> >>
  /\ m_job[<<1, 1>>] = "closed" /\ m_job[<<1, 2>>] = "closed"
  /\ m_jobs = <<>>

\* C20: a constructor error in Apply leaves the call in its loop over the
\* specs, at the next spec, with the jobs constructed so far untouched; and
\* in the step in which Apply returns every spec has been tried and every
\* job whose constructor did not fail is running and in the collection.
ManagerApplyIsolatesFailures ==
  /\ [][\A k \in Calls : \A i \in SpecIdx :
         m_job[<<k, i>>] = "none" /\ m_job'[<<k, i>>] = "failed"
           => /\ m_pc'[k] = "build" /\ m_i'[k] = i + 1
              /\ m_new'[k] = m_new[k]
              /\ \A j \in JobIds \ {<<k, i>>} : m_job'[j] = m_job[j]]_vars
  /\ [][\A k \in Calls :
         m_op[k] = "Apply" /\ mReturns(k)
           => \A i \in 1..m_n[k] :
                /\ m_job[<<k, i>>] \in {"failed", "running"}
                /\ m_job[<<k, i>>] = "running" => <<k, i>> \in Range(m_jobs')]_vars

\* an Apply has returned whose first constructor failed: its second job
\* runs and is the collection
ManagerSiblingSurvivesFailure ==
  /\ m_op[1] = "Apply" /\ m_pc[1] = "returned" /\ m_n[1] = 2
  /\ m_job[<<1, 1>>] = "failed" /\ m_job[<<1, 2>>] = "running"
  /\ m_jobs = << <<1, 2>> >>

\* C21: when the subscription fails newWatchJob returns the error and no
\* job, and from then on nothing of a job exists or comes to exist: no
\* subscription, no run loop task, no run-on-start task, no process, no
\* timer, and nothing for a caller to Close.
WatchConstructionFailureStartsNothing ==
  /\ [](w_ctor = "error" =>
          /\ ~w_subscribed
          /\ w_rpc = "none"
          /\ w_startpc = "none"
          /\ w_nlaunch = 0
          /\ w_ntimers = 0
          /\ \A p \in Pids : w_pstate[p] = "none"
          /\ \A c \in Closers : w_cpc[c] = "absent")
  /\ [][w_ctor = "error" => w_ctor' = "error"]_vars
  /\ [][w_ctor = "call" /\ w_ctor' = "job" => watchJob_Init']_vars

\* newWatchJob has returned an error for a spec with run_on_start
WatchConstructionFailed == w_ctor = "error" /\ w_runOnStart

\* C22: a log directory that cannot be created or opened is reported by
\* newServerJob: whenever opening the log has failed for a spec, the
\* constructor has returned an error and no run loop exists for it.
ServerBadLogFailsConstruction ==
  s_err = "log" => s_ctor = "error" /\ s_rpc = "none"

\* C23: a launch whose spawn fails is followed by what follows a completed
\* run: in restart mode with run_on_start the job, unless it is closed,
\* goes on to launch again.
WatchFailedLaunchRelaunches ==
  (w_restart /\ w_runOnStart /\ w_nlaunch = 1 /\ w_pstate[1] = "failed")
    ~> (w_nlaunch = 2 \/ w_closed)

\* launchOnce has returned because the log could not be opened or the
\* spawn failed
sLaunchFailed == s_err \in {"log", "start"}

\* C24: a launch attempt of a server job that fails before a process exists
\* leaves no process handle, pty or process behind and spawns nothing; the
\* run loop then ends if the job is closed or restart is off and otherwise
\* waits for the restart delay, and the next attempt starts only out of the
\* elapsed delay of a job that is not closed, as after an exited process.
ServerLaunchFailureRestartPath ==
  /\ [](sLaunchFailed => s_rpc = "after" /\ s_cmd = 0 /\ s_pty = 0 /\ sLive = {})
  /\ [][sLaunchFailed /\ s_rpc' # s_rpc =>
          /\ s_rpc' = (IF s_closed \/ ~s_restart THEN "done" ELSE "delay")
          /\ s_doneCh' = (s_closed \/ ~s_restart)
          /\ s_nspawn' = s_nspawn]_vars
  /\ [][s_rpc' = "launch" /\ s_rpc # "launch" => s_rpc = "delaychk" /\ ~s_closed]_vars
  /\ [][s_rpc' = "delaychk" /\ s_rpc # "delaychk" => s_rpc = "delay" /\ ~sLaunchFailed]_vars
  /\ (sLaunchFailed /\ ~s_restart) ~> (s_rpc = "done" /\ s_doneCh)
  /\ (sLaunchFailed /\ s_restart) ~> (s_rpc = "launch" \/ s_closed)

\* the attempt after a process that ran and exited has failed on the log
\* file, in a restarting job that is not closed
ServerRelaunchFailed ==
  /\ s_err = "log"
  /\ s_restart /\ ~s_closed
  /\ s_pstate[1] = "reaped"

\* C25: a process that was sent SIGTERM and still runs unkilled has a kill
\* timer pending that was armed for it; a timer is stopped only once the
\* process it was armed for is reaped; a callback that finds its process
\* still the job's handle sends it SIGKILL; hence a process that keeps
\* running after SIGTERM is eventually sent SIGKILL.
TermThenKill ==
  /\ [](\A p \in Pids :
          wTerms(p) > 0 /\ w_pstate[p] = "running" /\ w_kills[p] = 0 =>
            /\ w_cmd = p
            /\ \E t \in Timers : w_tproc[t] = p /\ w_tstate[t] \in {"armed", "firing"})
  /\ [](\A p \in SPids :
          s_term[p] > 0 /\ s_pstate[p] = "running" /\ s_kills[p] = 0 =>
            /\ s_cmd = p
            /\ s_tproc = p /\ s_tstate \in {"armed", "firing"})
  /\ [][\A t \in Timers :
          w_tstate'[t] = "stopped" /\ w_tstate[t] # "stopped" =>
            w_pstate'[w_tproc[t]] = "reaped"]_vars
  /\ [][s_tstate' = "stopped" /\ s_tstate # "stopped" => s_pstate[s_tproc] = "reaped"]_vars
  /\ [][\A t \in Timers :
          w_tstate[t] = "firing" /\ w_tstate'[t] = "done" /\ w_cmd = w_tproc[t] =>
            w_kills'[w_tproc[t]] = w_kills[w_tproc[t]] + 1]_vars
  /\ [][s_tstate = "firing" /\ s_tstate' = "done" /\ s_cmd = s_tproc =>
          s_kills'[s_tproc] = s_kills[s_tproc] + 1]_vars
  /\ \A p \in Pids :
       (wTerms(p) > 0 /\ w_pstate[p] = "running")
         ~> (w_kills[p] > 0 \/ w_pstate[p] # "running")
  /\ \A p \in SPids :
       (s_term[p] > 0 /\ s_pstate[p] = "running")
         ~> (s_kills[p] > 0 \/ s_pstate[p] # "running")

\* a process that kept running after the restart request's SIGTERM was
\* sent SIGKILL and runs on
WatchProcessForceKilled ==
  \E p \in Pids :
    /\ w_term[p].sched = 1
    /\ w_kills[p] = 1
    /\ w_pstate[p] = "running"

\* C26: a watch job without run_on_start has no startup task, and its
\* first launch is made by the run loop out of handleTriggers, which it
\* enters only on a fire of the debounce timer with an admitted
\* notification buffered; so without an admitted Trigger it launches nothing.
WatchNoLaunchBeforeTrigger ==
  /\ [](~w_runOnStart => w_startpc = "none")
  /\ [][~w_runOnStart /\ w_nlaunch = 0 /\ w_nlaunch' # 0 =>
          /\ w_rpc = "sched" /\ w_rpc' = "select"
          /\ w_window # <<>>
          /\ triggersForEvent(w_window[1]) # <<>>]_vars
  /\ [][~w_runOnStart /\ w_rpc' = "sched" /\ w_rpc # "sched" =>
          w_dtimer = "fired" /\ w_window # <<>>]_vars
  /\ [](~w_runOnStart /\ w_nevents = 0 => w_nlaunch = 0 /\ w_cmd = 0 /\ ~w_running)

\* a restarting job without run_on_start runs its first process, launched
\* for a debounced trigger
WatchFirstLaunchByTrigger ==
  /\ ~w_runOnStart /\ w_restart
  /\ w_nlaunch = 1
  /\ w_pstate[1] = "running"
  /\ w_trig # <<>>

\* task t is started and its next operation is a j.mu.Lock()
muAtLock(t) == muStarted(t) /\ nextOp(t).op = "lock"

\* C27: the task that holds the job mutex is never at a blocking wait
\* (cmd.Wait, <-doneCh, the run loop's select, the restart delay, wg.Wait),
\* never locks it again and never returns with it; its next operation can
\* always be taken, so the tasks waiting for the mutex are never deadlocked.
MutexNeverHeldBlocked ==
  mu_holder # NoTask =>
    /\ muStarted(mu_holder)
    /\ nextOp(mu_holder).op \in {"unlock", "if", "sig", "go"}
    /\ ENABLED (\/ Mutex_Unlock(mu_holder)
                \/ Task_If(mu_holder)
                \/ Task_Signal(mu_holder)
                \/ Task_Go(mu_holder))

\* the run loop holds the mutex of a watch job while a Close caller waits
\* for doneCh and an exit handler and a kill-timer callback wait for the
\* mutex
MutexContended ==
  /\ mu_kind = "watch"
  /\ mu_holder = <<"run", 1>>
  /\ \E c \in Closers : muStarted(<<"close", c>>) /\ nextOp(<<"close", c>>).op = "sel"
  /\ \E p \in Pids : muAtLock(<<"exit", p>>)
  /\ \E t \in Timers : muAtLock(<<"kill", t>>)

\* C28: a server job never has two processes that were spawned and not
\* reaped, nor two open ptys; its handles point to the latest process only;
\* and a process is spawned only when every earlier one has exited and was
\* reaped, its copy tasks have finished, its pty is closed and clearProcess
\* has reset the handles and the kill timer.
ServerOneProcessAtATime ==
  /\ [](Cardinality(sLive) <= 1)
  /\ [](Cardinality({p \in SPids : s_ptyOpen[p]}) <= 1)
  /\ [](s_cmd \in {0, s_nspawn} /\ s_pty \in {0, s_nspawn})
  /\ [](\A p \in SPids :
          p < s_nspawn => s_pstate[p] = "reaped" /\ s_copies[p] = 0 /\ ~s_ptyOpen[p])
  /\ [][s_nspawn' # s_nspawn =>
          /\ s_nspawn' = s_nspawn + 1
          /\ s_cmd = 0 /\ s_pty = 0 /\ ~s_killTimer
          /\ \A p \in SPids :
               s_pstate[p] \in {"none", "reaped"} /\ s_copies[p] = 0 /\ ~s_ptyOpen[p]]_vars

\* the second process of a pty job runs with its pty open, after the first
\* was reaped and cleared
ServerSecondPtyProcess ==
  /\ s_usePTY
  /\ s_pstate[1] = "reaped" /\ s_copies[1] = 0
  /\ s_pstate[2] = "running" /\ s_ptyOpen[2]
  /\ s_cmd = 2 /\ s_pty = 2

\* the server jobs the daemon holds: the running jobs of a ServerManager of
\* the daemon
dServerJobs == {i \in 1..Len(m_jobs) : m_kind = "server" /\ m_job[m_jobs[i]] = "running"}

\* C29: while the daemon runs after a successful Start and no reload is in
\* progress, it holds one running server job for every [[servers]] entry of
\* the configuration that the last successful reloadConfig loaded.
DaemonRunsEveryServer ==
  (d_main = "wait" /\ d_rpc = "idle" /\ d_loaded.ok) =>
    Cardinality(dServerJobs) = d_loaded.ns

\* the exit handler of process p captures the queues in this step
wExitCaptured(p) == w_hpc[p] = "wait" /\ w_hpc'[p] # "wait"

\* the exit handler of process p makes its scheduleTriggers call in this step
wExitRescheduled(p) == w_hpc[p] = "resched" /\ w_hpc'[p] = "done"

\* C30: in restart mode, when a process exits and the job is not closed, the
\* exit handler takes the restart-queue as the triggers of the relaunch, or
\* one "restart" trigger if the queue is empty and run_on_start is set, or
\* nothing if the queue is empty and run_on_start is not set; in the first
\* two cases the next launch is the exit handler's and the process it starts
\* carries exactly those triggers; in the third the exit handler launches
\* nothing.
WatchExitRelaunch ==
  [][\A p \in Pids :
       /\ (w_restart /\ ~w_closed /\ wExitCaptured(p)) =>
            /\ w_htrig'[p] = IF Len(w_pendingRestart) > 0 THEN w_pendingRestart
                              ELSE IF w_runOnStart THEN <<Trigger("restart", NoPath)>>
                              ELSE <<>>
            /\ w_hpc'[p] = IF Len(w_htrig'[p]) > 0 THEN "resched" ELSE "done"
            /\ w_nlaunch' = w_nlaunch
       /\ (w_restart /\ ~w_closed /\ w_hpc[p] = "resched" /\ w_nlaunch' # w_nlaunch) =>
            wExitRescheduled(p)
       /\ (w_restart /\ ~w_closed /\ wExitRescheduled(p)) =>
            /\ w_nlaunch' = w_nlaunch + 1
            /\ w_pstate'[w_nlaunch'] = "running" => w_trig' = w_htrig[p]
     ]_vars

\* Close caller c runs Close up to its wait on doneCh in this step
sCloseCalled(c) == s_cpc[c] = "idle" /\ s_cpc'[c] = "wait"

\* C31: a server job with restart=false never comes back to launchOnce: an
\* attempt that passes the closed check goes on to open the log, at most one
\* process is spawned, and whatever launchOnce returns the run loop returns
\* and closes doneCh; a Close called after the loop has ended sets closed,
\* signals nothing, arms no timer and finds doneCh closed.
ServerNoRestartRunsOnce ==
  /\ [][~s_restart => ~(s_rpc' = "launch" /\ s_rpc # "launch")]_vars
  /\ [][(~s_restart /\ ~s_closed /\ s_rpc = "launch" /\ s_rpc' # "launch") => s_rpc' = "open"]_vars
  /\ [](~s_restart => s_nspawn <= 1)
  /\ [][(~s_restart /\ s_rpc = "after" /\ s_rpc' # "after") => s_rpc' = "done" /\ s_doneCh']_vars
  /\ (~s_restart /\ s_rpc = "after") ~> (s_rpc = "done" /\ s_doneCh)
  /\ [][\A c \in Closers :
          (~s_restart /\ s_rpc = "done" /\ sCloseCalled(c)) =>
            /\ s_closed' /\ s_doneCh'
            /\ s_term' = s_term /\ s_kills' = s_kills
            /\ s_tstate' = s_tstate /\ ~s_killTimer']_vars

\* the only process of a restart=false job was reaped, the loop ended, and
\* a Close returned having signalled nothing
ServerEndedThenClosed ==
  /\ ~s_restart
  /\ s_rpc = "done"
  /\ s_nspawn = 1 /\ s_pstate[1] = "reaped"
  /\ s_term[1] = 0 /\ s_tstate = "none"
  /\ s_closed /\ s_cpc[1] = "returned"

\* rel, the result of filepath.Rel(root, path), names a path under the root:
\* it is not ".." and does not begin with "../"
underRoot(rel) ==
  /\ rel # <<".", ".">>
  /\ ~(Len(rel) >= 3 /\ SubSeq(rel, 1, 3) = <<".", ".", "/">>)

\* the event kinds of the raw bits, in mapping order
KindOrder == <<"add", "addDir", "change", "unlink", "unlinkDir", "rename", "renameDir">>

kindsOf(raw) ==
  (IF "Create" \in raw THEN {"add", "addDir"} ELSE {})
  \cup (IF "Write" \in raw THEN {"change"} ELSE {})
  \cup (IF "Remove" \in raw THEN {"unlink", "unlinkDir"} ELSE {})
  \cup (IF "Rename" \in raw THEN {"rename", "renameDir"} ELSE {})

RECURSIVE kindTriggers(_, _, _)
kindTriggers(order, kinds, rel) ==
  IF order = <<>> THEN <<>>
  ELSE (IF Head(order) \in kinds THEN <<Trigger(Head(order), rel)>> ELSE <<>>)
       \o kindTriggers(Tail(order), kinds, rel)

\* C32: handling a notification whose path is under the watch root and
\* whose relative path matches a matcher appends to the debounce buffer
\* exactly one Trigger for every event kind that the raw kind maps to and
\* the allow-set contains, in mapping order.
WatchAdmissionComplete ==
  [][(w_rpc = "event" /\ w_rpc' # "event" /\ underRoot(w_info.Rel) /\ matches(w_info.Rel)) =>
       w_rpending' = w_rpending \o kindTriggers(KindOrder, kindsOf(w_info.Event) \cap CfgEvents, w_info.Rel)
    ]_vars

\* the position of the first occurrence of x in seq
firstIndex(seq, x) == CHOOSE i \in 1..Len(seq) : seq[i] = x /\ \A k \in 1..(i - 1) : seq[k] # x

\* C33: the result of dedupeTriggers on the debounce buffer has no two
\* elements with the same event and path, has every Trigger of the buffer,
\* has them in the order of their first occurrences in the buffer, and is
\* its own dedupeTriggers result.
DedupeTriggersFirstSeen ==
  LET r == dedupeTriggers(w_rpending) IN
  /\ \A i, k \in 1..Len(r) :
       i # k => <<r[i].Event, r[i].Path>> # <<r[k].Event, r[k].Path>>
  /\ Range(r) = Range(w_rpending)
  /\ \A i, k \in 1..Len(r) :
       i < k => firstIndex(w_rpending, r[i]) < firstIndex(w_rpending, r[k])
  /\ dedupeTriggers(r) = r

\* the run loop is handing over a buffer of four Triggers, two of them repeats
DedupeDroppedRepeats ==
  /\ w_rpc = "sched"
  /\ Len(w_rpending) = 4
  /\ Len(dedupeTriggers(w_rpending)) = 2

\* Close caller c runs Close up to its wait on doneCh in this step
wCloseCalled(c) == w_cpc[c] = "idle" /\ w_cpc'[c] = "wait"

\* C34: once the event channel is closed the run loop ends (unless it is in
\* handleTriggers with the launches of this model used up), and the step
\* that ends it unsubscribes and closes doneCh; a Close called after that on
\* a job not yet closed sets closed, sends one terminate signal to the
\* process the job holds, if any, and finds doneCh closed.
WatchEventsClosedEndsLoop ==
  /\ w_evClosed ~> \/ w_rpc = "done" /\ w_doneCh /\ ~w_subscribed
                   \/ w_rpc = "sched" /\ w_nlaunch = MaxLaunch
  /\ [][(w_rpc # "done" /\ w_rpc' = "done") => w_doneCh' /\ ~w_subscribed']_vars
  /\ [][\A c \in Closers :
          (w_rpc = "done" /\ ~w_closed /\ wCloseCalled(c)) =>
            /\ w_closed' /\ w_doneCh'
            /\ w_running => w_cmd # 0
            /\ w_cmd # 0 => /\ w_term'[w_cmd].close = w_term[w_cmd].close + 1
                             /\ w_killTimer' # 0]_vars

\* the run loop ended on the closed event channel while a process runs and
\* nobody has called Close
WatchLoopEndedOnClosedEvents ==
  /\ w_evClosed
  /\ w_rpc = "done" /\ w_doneCh /\ ~w_subscribed
  /\ ~w_closed
  /\ w_running

\* reloadConfig is called in this step
dReloadCalled == d_rpc = "idle" /\ d_rpc' # "idle"

\* the watcher has called reloadConfig, which has yet to read the file
dReloadStarted == d_watcher = "reload" /\ d_rpc = "read"

\* C35: the config watcher calls reloadConfig only on receiving a fire of
\* the debounce timer, the timer fires only from being armed and is armed
\* only by a received event, so no event leads to two calls; an event that
\* waits for the watcher leads to a reloadConfig call (unless the daemon is
\* stopping or the calls of this model are used up); and a call is made
\* only while no reloadConfig is running, by Start or by the watcher, never
\* both.
ConfigReloadOncePerBurst ==
  /\ [][(dReloadCalled /\ d_main # "new") => d_watcher = "fired" /\ d_watcher' = "reload"]_vars
  /\ [][(d_watcher' = "fired" /\ d_watcher # "fired") => d_watcher = "timer"]_vars
  /\ [][(d_watcher' = "timer" /\ d_watcher # "timer") =>
          d_event /\ ~d_event' /\ d_watcher \in {"select", "fired"}]_vars
  /\ [][(d_watcher = "reload" /\ d_watcher' # "reload") => d_watcher' = "select"]_vars
  /\ (d_event /\ d_watcher \in {"select", "timer", "fired", "reload"}) ~>
        \/ dReloadStarted
        \/ d_main \in {"stop", "stopall", "stopped"}
        \/ d_call > MaxCalls
  /\ [](d_rpc # "idle" => (d_main = "start") # (d_watcher = "reload"))
  /\ [](d_rpc = "idle" => d_main # "start" /\ d_watcher # "reload")

\* a hot reload is in progress while a further event waits for the watcher
ConfigReloadWithEventWaiting ==
  /\ d_watcher = "reload"
  /\ d_rpc = "apply"
  /\ d_loaded.ok
  /\ d_event

\* C36: between the sections under the job mutex, restartQueued holds only
\* while a process runs and the restart-queue is non-empty, and while no
\* process runs the run-queue and the restart-queue are empty and
\* restartQueued is false.
WatchSchedulerStateInvariant ==
  /\ w_restartQueued => w_running /\ Len(w_pendingRestart) > 0
  /\ ~w_running => w_pending = <<>> /\ w_pendingRestart = <<>> /\ ~w_restartQueued

\* a restart was requested and a second batch was coalesced behind it
WatchRestartQueuedTwoBatches ==
  /\ w_restartQueued
  /\ w_running
  /\ Len(w_pendingRestart) >= 2
  /\ ~w_closed

\* C37: a watch job never has two armed kill timers, and no kill timer is
\* still armed once the process it was armed for has been reaped.
WatchOneKillTimer ==
  /\ Cardinality({t \in Timers : w_tstate[t] = "armed"}) <= 1
  /\ \A t \in Timers :
       w_tstate[t] = "armed" => w_pstate[w_tproc[t]] \in {"running", "exited"}

\* no call on the manager is between its first swapJobs and its return
mQuiet == \A k \in Calls : ~mActive(k)

\* C38: under concurrent calls, whenever no call is running every job that
\* was constructed and has not completed Close is in the collection, and a
\* StopAll whose return leaves no call running leaves the collection empty.
ManagerConcurrentNoOrphan ==
  /\ [](mQuiet => \A j \in JobIds :
                    m_job[j] \in {"running", "closing"} => j \in Range(m_jobs))
  /\ [][\A k \in Calls :
          (mReturns(k) /\ m_op[k] = "StopAll" /\ \A d \in Calls : d # k => ~mActive(d)) =>
            m_jobs' = <<>>]_vars

dReloadFails == d_rpc # "idle" /\ d_rpc' = "idle" /\ d_err' = "err"

\* C39: a reloadConfig that fails leaves the jobs alone. Apply is reached
\* only with a configuration that readConfig returned; no step taken while
\* reloadConfig is before its call of Apply changes the manager, its jobs or
\* the loaded configuration or makes a call on the manager; and a
\* reloadConfig that returns an error returns from before that call.
FailedReloadLeavesJobs ==
  /\ [](d_rpc \in {"tracker", "apply"} => d_cfg.ok)
  /\ [][(d_rpc \in {"read", "tracker"}) =>
          UNCHANGED <<mvars, d_loaded, d_call>>]_vars
  /\ [][dReloadFails => d_rpc \in {"read", "tracker"}]_vars

\* the config watcher's reloadConfig has failed and the jobs of the
\* configuration loaded before are all running
FailedReloadWithJobsRunning ==
  /\ d_err = "err"
  /\ d_watcher = "select"
  /\ d_rpc = "idle"
  /\ d_loaded.ok
  /\ d_loaded.nw > 0
  /\ Len(m_jobs) = d_loaded.nw
  /\ \A j \in Range(m_jobs) : m_job[j] = "running"

dApplyCalled == \E k \in Calls : m_op[k] # "Apply" /\ m_op'[k] = "Apply"

\* C40: from the moment Stop goes on to StopAll the config watcher task
\* has returned and no reloadConfig is running, and none begins and Apply
\* is not called from then on; once Stop has returned the collection is
\* empty, every job ever constructed has completed Close, and the
\* collection stays empty.
DaemonStopOrdering ==
  /\ [](d_main \in {"stopall", "stopped"} => d_watcher = "done" /\ d_rpc = "idle")
  /\ [][(d_main \in {"stopall", "stopped"}) => ~dReloadCalled /\ ~dApplyCalled]_vars
  /\ [](d_main = "stopped" =>
          /\ m_jobs = <<>>
          /\ \A j \in JobIds : m_job[j] \in {"none", "failed", "closed"})
  /\ [][d_main = "stopped" => m_jobs' = <<>>]_vars

\* Stop has returned after Start's Apply and an Apply of a reload by the
\* config watcher, whose job is closed
DaemonStoppedAfterReload ==
  /\ d_main = "stopped"
  /\ d_call = 4
  /\ m_op = <<"Apply", "Apply", "StopAll">>
  /\ m_job[<<2, 1>>] = "closed"

====
